---- MODULE Spec2Model ----
(***************************************************************************)
(* Streaming query pipeline of costq-web:                                  *)
(*   Query Registry      backend/api/query_registry.py                     *)
(*   Runtime Bridge      backend/services/agentcore_client.py              *)
(*   Protocol Normalizer backend/api/agentcore_response_parser.py          *)
(*   Query Orchestrator  backend/api/agent_provider.py                     *)
(*   Transport Adapter   backend/api/sse.py                                *)
(*                                                                         *)
(* Text is a sequence of atoms.  An atom is a group of characters that is  *)
(* never cut further; every marker of the wire protocol is made of two or  *)
(* more atoms, so a frame boundary can fall inside it.                     *)
(***************************************************************************)
EXTENDS Integers, Sequences, FiniteSets, TLC

\* ------------------------------------------------------------------ bounds
MaxFrames == 3
MaxClock == 1
MaxChunks == 2
MaxCuts == 2
MaxCancels == 1

None == "None"

\* ------------------------------------------------------- sequence helpers
Min(a, b) == IF a < b THEN a ELSE b

\* s from position i (1-based) to its end
From(s, i) == SubSeq(s, i, Len(s))

\* pat occurs in s at position i
OccursAt(pat, s, i) ==
    /\ i >= 1
    /\ i + Len(pat) - 1 <= Len(s)
    /\ SubSeq(s, i, i + Len(pat) - 1) = pat

\* least position >= i where pat occurs in s, 0 when there is none
Find(pat, s, i) ==
    LET hits == {k \in i..Len(s) : OccursAt(pat, s, k)}
    IN  IF hits = {} THEN 0 ELSE CHOOSE k \in hits : \A m \in hits : k <= m

\* str.replace(pat, ""): every non-overlapping occurrence, left to right
RECURSIVE ReplaceAll(_, _)
ReplaceAll(s, pat) ==
    IF s = <<>> \/ pat = <<>> THEN s
    ELSE IF OccursAt(pat, s, 1) THEN ReplaceAll(From(s, Len(pat) + 1), pat)
    ELSE <<Head(s)>> \o ReplaceAll(Tail(s), pat)

\* ------------------------------------------------------------------ atoms
WS == " "
IsSpace(a) == a = WS

\* number of whitespace atoms at the start of s
RECURSIVE SpaceRun(_)
SpaceRun(s) == IF s # <<>> /\ IsSpace(Head(s)) THEN 1 + SpaceRun(Tail(s)) ELSE 0

RECURSIVE Reverse(_)
Reverse(s) == IF s = <<>> THEN <<>> ELSE Append(Reverse(Tail(s)), Head(s))

\* str.strip()
Strip(s) ==
    LET l == From(s, SpaceRun(s) + 1)
    IN  SubSeq(l, 1, Len(l) - SpaceRun(Reverse(l)))

WrapOpen == <<"<function_", "calls>">>
WrapClose == <<"</function_", "calls>">>
ResultOpen == <<"<result>">>
ResultClose == <<"</result>">>
InvokeOpen == <<"<inv", "oke name=\"">>
InvokeClose == <<"</inv", "oke>">>
ParamOpen == <<"<param", "eter name=\"">>
ParamClose == <<"</param", "eter>">>
TagEnd == <<"\">">>

\* the literal "<invoke" occurs in s: "<inv" followed by an atom starting "oke"
InvokeLiteralAt(s, i) ==
    /\ i >= 1
    /\ i + 1 <= Len(s)
    /\ s[i] = "<inv"
    /\ s[i + 1] \in {"oke name=\"", "oke>"}

FindInvokeLiteral(s) ==
    LET hits == {k \in 1..Len(s) : InvokeLiteralAt(s, k)}
    IN  IF hits = {} THEN 0 ELSE CHOOSE k \in hits : \A m \in hits : k <= m

\* json.loads of a text: digits and "{}" are JSON, anything else is not
JsonAtoms == {"1", "2", "{}"}
JsonValid(s) ==
    LET t == Strip(s)
    IN  /\ t # <<>>
        /\ \/ t = <<"{}">>
           \/ \A i \in 1..Len(t) : t[i] \in {"1", "2"}

\* a parameter value: decoded as structured data where possible, else the text
DecodeValue(s) ==
    IF JsonValid(s) THEN [json |-> TRUE, v |-> Strip(s)]
    ELSE [json |-> FALSE, v |-> s]

\* ------------------------------------------------------------ python dicts
\* args: a dict name -> value
EmptyArgs == [x \in {} |-> None]
ArgsSet(args, n, v) ==
    [x \in (DOMAIN args) \cup {n} |-> IF x = n THEN v ELSE args[x]]

\* tool_id_map: an insertion-ordered dict, a sequence of [k, v]
RECURSIVE OMapSet(_, _, _)
OMapSet(m, k, v) ==
    IF m = <<>> THEN <<[k |-> k, v |-> v]>>
    ELSE IF Head(m).k = k THEN <<[k |-> k, v |-> v]>> \o Tail(m)
    ELSE <<Head(m)>> \o OMapSet(Tail(m), k, v)

\* delete the first entry whose value is v (the loop breaks after one)
RECURSIVE OMapDelValue(_, _)
OMapDelValue(m, v) ==
    IF m = <<>> THEN <<>>
    ELSE IF Head(m).v = v THEN Tail(m)
    ELSE <<Head(m)>> \o OMapDelValue(Tail(m), v)

\* ------------------------------------------------------------------ events
Chunk(content) == [type |-> "chunk", content |-> content]
ToolCallStart(id, name, args, update) ==
    [type |-> "tool_call_start", tool_id |-> id, tool_name |-> name,
     args |-> args, update |-> update]
ToolCallResult(id, status) ==
    [type |-> "tool_call_result", tool_use_id |-> id, status |-> status]
ParserComplete(reason) ==
    [type |-> "complete", success |-> TRUE, stop_reason |-> reason]
\* the message is prefixed: f"Runtime ...: {error_msg}"
ParserError(msg) == [type |-> "error", content |-> <<"Runtime error: ", msg>>]
TokenUsage(usage) == [type |-> "token_usage", usage |-> usage]
MessageStart(role) == [type |-> "message_start", role |-> role]

\* ------------------------------------------------- Protocol Normalizer
\* The parser's fields, as AgentCoreResponseParser.__init__ sets them.
NewParser ==
    [buffer |-> <<>>, tool_id_map |-> <<>>, sent_tool_ids |-> {},
     pending_tool_calls |-> <<>>]

\* re.sub(r"<function_calls>\s*", "", buffer)
RECURSIVE SubWrapOpen(_)
SubWrapOpen(s) ==
    IF s = <<>> THEN s
    ELSE IF OccursAt(WrapOpen, s, 1)
         THEN LET rest == From(s, Len(WrapOpen) + 1)
              IN  SubWrapOpen(From(rest, SpaceRun(rest) + 1))
    ELSE <<Head(s)>> \o SubWrapOpen(Tail(s))

\* re.sub(r"\s*</function_calls>", "", buffer)
RECURSIVE SubWrapClose(_)
SubWrapClose(s) ==
    IF s = <<>> THEN s
    ELSE IF OccursAt(WrapClose, s, SpaceRun(s) + 1)
         THEN SubWrapClose(From(s, SpaceRun(s) + Len(WrapClose) + 1))
    ELSE <<Head(s)>> \o SubWrapClose(Tail(s))

\* re.sub(r"</invoke>\s*", "", buffer)
RECURSIVE SubInvokeClose(_)
SubInvokeClose(s) ==
    IF s = <<>> THEN s
    ELSE IF OccursAt(InvokeClose, s, 1)
         THEN LET rest == From(s, Len(InvokeClose) + 1)
              IN  SubInvokeClose(From(rest, SpaceRun(rest) + 1))
    ELSE <<Head(s)>> \o SubInvokeClose(Tail(s))

\* re.search(r"<result>(.*?)</result>", buffer): the first opening tag and the
\* first closing tag after it
MatchResult(s) ==
    LET a == Find(ResultOpen, s, 1)
        b == IF a = 0 THEN 0 ELSE Find(ResultClose, s, a + 1)
    IN  IF a = 0 \/ b = 0 THEN [found |-> FALSE]
        ELSE [found |-> TRUE, body |-> SubSeq(s, a + 1, b - 1),
              whole |-> SubSeq(s, a, b)]

\* re.search(r'<parameter name="(.*?)">(.*?)</parameter>', s)
MatchParam(s) ==
    LET a == Find(ParamOpen, s, 1)
        j == IF a = 0 THEN 0 ELSE Find(TagEnd, s, a + Len(ParamOpen))
        k == IF j = 0 THEN 0 ELSE Find(ParamClose, s, j + 1)
    IN  IF k = 0 THEN [found |-> FALSE]
        ELSE [found |-> TRUE,
              name |-> SubSeq(s, a + Len(ParamOpen), j - 1),
              value |-> SubSeq(s, j + 1, k - 1),
              whole |-> SubSeq(s, a, k + Len(ParamClose) - 1),
              rest |-> From(s, k + Len(ParamClose))]

\* re.search(r'(.*?)<invoke name="(.*?)">(.*?)</invoke>(.*)', buffer)
MatchInvoke(s) ==
    LET a == Find(InvokeOpen, s, 1)
        j == IF a = 0 THEN 0 ELSE Find(TagEnd, s, a + Len(InvokeOpen))
        k == IF j = 0 THEN 0 ELSE Find(InvokeClose, s, j + 1)
    IN  IF k = 0 THEN [found |-> FALSE]
        ELSE [found |-> TRUE,
              pre_text |-> SubSeq(s, 1, a - 1),
              tool_name |-> SubSeq(s, a + Len(InvokeOpen), j - 1),
              params_xml |-> SubSeq(s, j + 1, k - 1),
              post_text |-> From(s, k + Len(InvokeClose))]

\* the parameters between the opening and the closing tag (re.finditer)
RECURSIVE ParseParams(_, _)
ParseParams(s, args) ==
    LET m == MatchParam(s)
    IN  IF ~m.found THEN args
        ELSE ParseParams(m.rest, ArgsSet(args, m.name, DecodeValue(m.value)))

\* the stray parameter tags after </invoke>: merged into args and removed from
\* the buffer, each by buffer.replace of the matched text
RECURSIVE OrphanParams(_, _, _)
OrphanParams(s, args, found) ==
    LET m == MatchParam(s)
    IN  IF ~m.found THEN [buffer |-> s, args |-> args, found |-> found]
        ELSE OrphanParams(ReplaceAll(s, m.whole),
                          ArgsSet(args, m.name, DecodeValue(m.value)), TRUE)

\* tool_id = f"tool_{tool_name}_{args_hash}_{int(timestamp * 1000)}"; the hash
\* of the sorted arguments is kept as the arguments themselves
ToolId(tool_name, args, ts) == <<"tool", tool_name, args, ts>>

\* A frame is a record holding some of the parts
\*   error, token_usage, messageStart, toolDelta, text, blockStart, blockStop,
\*   messageStop, message
\* r is [p |-> the parser's fields, msgs |-> the messages collected so far].
Has(frame, part) == part \in DOMAIN frame
Emit(r, m) == [r EXCEPT !.msgs = Append(@, m)]
SetBuffer(r, b) == [r EXCEPT !.p.buffer = b]
\* A tool id is a tuple: <<"tool", name, args, ms>> when the parser derives it,
\* <<toolUseId>> when upstream gives it, <<>> when upstream gives none.
NoId == <<>>
Truthy(id) == id # NoId

\* lines 303-334: a <result> block is reported for the tool named last in
\* tool_id_map and removed from the buffer
ResultTag(r) ==
    LET m == MatchResult(r.p.buffer)
        map == r.p.tool_id_map
        tool_id == IF map # <<>> THEN map[Len(map)].v ELSE NoId
        r1 == IF JsonValid(m.body) /\ Truthy(tool_id)
              THEN Emit(r, ToolCallResult(tool_id, "success"))
              ELSE r
    IN  IF ~m.found THEN r
        ELSE SetBuffer(r1, ReplaceAll(r.p.buffer, m.whole))

\* a tool call that was never announced is announced as if it were new
NeverSent(p, tool_id) == FALSE
\* lines 382 and 574: if tool_id in self.sent_tool_ids
AlreadySent(p, tool_id) == tool_id \in p.sent_tool_ids

\* lines 337-524: the loop over the <invoke> blocks of the buffer
RECURSIVE InvokeLoop(_, _)

\* the text before the block is sent as a chunk
FlushPreText(r, m) ==
    IF m.pre_text # <<>> THEN Emit(r, Chunk(m.pre_text)) ELSE r

\* the call is announced; when stray parameters were merged it is announced
\* once more with the update flag, and both messages hold the one args dict
AnnounceCall(r, tool_id, m, o) ==
    IF o.found
    THEN Emit(Emit(r, ToolCallStart(tool_id, m.tool_name, o.args, FALSE)),
              ToolCallStart(tool_id, m.tool_name, o.args, TRUE))
    ELSE Emit(r, ToolCallStart(tool_id, m.tool_name, o.args, FALSE))

\* the id is recorded, the buffer is what follows the block
RecordCall(r, tool_id, m, b) ==
    [r EXCEPT !.p.sent_tool_ids = @ \cup {tool_id},
              !.p.tool_id_map = OMapSet(@, m.tool_name, tool_id),
              !.p.buffer = b]

\* text without another <invoke is sent at once, else the loop goes on
AfterCall(r, ts) ==
    IF r.p.buffer # <<>> /\ FindInvokeLiteral(r.p.buffer) = 0
    THEN SetBuffer(Emit(r, Chunk(r.p.buffer)), <<>>)
    ELSE InvokeLoop(r, ts)

NewCall(r, ts, m, tool_id, o) ==
    AfterCall(RecordCall(AnnounceCall(r, tool_id, m, o), tool_id, m,
                         SubInvokeClose(o.buffer)), ts)

CheckCall(r, ts, m, args, tool_id) ==
    IF AlreadySent(r.p, tool_id)
    THEN InvokeLoop(SetBuffer(r, m.post_text), ts)
    ELSE NewCall(r, ts, m, tool_id, OrphanParams(m.post_text, args, FALSE))

CompleteBlock(r, ts, m, args) ==
    CheckCall(r, ts, m, args, ToolId(m.tool_name, args, ts))

\* all of the buffer is sent, with or without an opening <invoke
FlushAll(r, at) ==
    IF r.p.buffer # <<>> THEN SetBuffer(Emit(r, Chunk(r.p.buffer)), <<>>) ELSE r
\* no complete block: text before an opening <invoke is sent and the rest
\* kept; without <invoke all of the buffer is sent
NoBlock(r, at) ==
    IF at > 1
    THEN SetBuffer(Emit(r, Chunk(SubSeq(r.p.buffer, 1, at - 1))), From(r.p.buffer, at))
    ELSE IF at = 1 THEN r
    ELSE IF r.p.buffer # <<>> THEN SetBuffer(Emit(r, Chunk(r.p.buffer)), <<>>)
    ELSE r

InvokeMatch(r, ts, m) ==
    IF m.found
    THEN CompleteBlock(FlushPreText(r, m), ts, m, ParseParams(m.params_xml, EmptyArgs))
    ELSE NoBlock(r, FindInvokeLiteral(r.p.buffer))

InvokeLoop(r, ts) == InvokeMatch(r, ts, MatchInvoke(r.p.buffer))

\* the text is kept in the buffer
TextKept(r, text, ts) == SetBuffer(r, r.p.buffer \o text)
\* lines 289-524: contentBlockDelta.delta.text
TextDelta(r, text, ts) ==
    LET b1 == SubWrapClose(SubWrapOpen(r.p.buffer \o text))
    IN  InvokeLoop(ResultTag(SetBuffer(r, b1)), ts)

\* the first pending tool call with this contentBlockIndex, 0 when none
PendingAt(pending, index) ==
    LET hits == {i \in 1..Len(pending) : pending[i].v.content_block_index = index}
    IN  IF hits = {} THEN 0 ELSE CHOOSE i \in hits : \A j \in hits : i <= j

\* the fragment is dropped
DeltaDropped(r, d) == r
\* lines 268-287: contentBlockDelta.delta.toolUse
ToolDelta(r, d) ==
    LET i == PendingAt(r.p.pending_tool_calls, d.index)
    IN  IF i # 0 /\ Truthy(r.p.pending_tool_calls[i].k)
        THEN [r EXCEPT !.p.pending_tool_calls[i].v.args_buffer = @ \o d.input]
        ELSE r

\* lines 526-548: contentBlockStart
BlockStart(r, st) ==
    [r EXCEPT !.p.pending_tool_calls =
        OMapSet(@, st.toolUseId,
                [name |-> st.name, args_buffer |-> <<>>,
                 content_block_index |-> st.index])]

\* json.loads(args_str) if args_str else {}, {} on JSONDecodeError
ToolArgs(args_str) ==
    IF args_str = <<"{\"a\":", "1}">>
    THEN ArgsSet(EmptyArgs, <<"a">>, [json |-> TRUE, v |-> <<"1">>])
    ELSE IF args_str = <<"{\"a\":", "2}">>
    THEN ArgsSet(EmptyArgs, <<"a">>, [json |-> TRUE, v |-> <<"2">>])
    ELSE EmptyArgs

RECURSIVE OMapDelKey(_, _)
OMapDelKey(m, k) ==
    IF m = <<>> THEN <<>>
    ELSE IF Head(m).k = k THEN Tail(m)
    ELSE <<Head(m)>> \o OMapDelKey(Tail(m), k)

\* lines 550-597: contentBlockStop
BlockStop(r, index) ==
    LET pending == r.p.pending_tool_calls
        i == PendingAt(pending, index)
        id == pending[i].k
        r1 == IF ~AlreadySent(r.p, id)
              THEN [Emit(r, ToolCallStart(id, pending[i].v.name,
                                          ToolArgs(pending[i].v.args_buffer), FALSE))
                      EXCEPT !.p.sent_tool_ids = @ \cup {id}]
              ELSE r
    IN  IF i # 0 /\ Truthy(pending[i].k)
        THEN [r1 EXCEPT !.p.pending_tool_calls = OMapDelKey(@, id)]
        ELSE r

StopReasons == {"end_turn", "max_tokens", "stop_sequence"}

\* every stop reason is answered with a completion, the buffer is left alone
CompleteAlways(r, stop_reason) == Emit(r, ParserComplete(stop_reason))
\* lines 599-644: messageStop
MessageStop(r, stop_reason) ==
    LET r1 == IF r.p.buffer # <<>>
              THEN SetBuffer(Emit(r, Chunk(r.p.buffer)), <<>>)
              ELSE r
    IN  IF stop_reason \in StopReasons
        THEN Emit(r1, ParserComplete(stop_reason))
        ELSE r1

\* lines 646-752: the toolResult items of a message, in either role
RECURSIVE ToolResults(_, _)
ToolResults(r, results) ==
    IF results = <<>> THEN r
    ELSE LET t == Head(results)
             r1 == [Emit(r, ToolCallResult(t.toolUseId, t.status))
                      EXCEPT !.p.tool_id_map = OMapDelValue(@, t.toolUseId)]
         IN  ToolResults(r1, Tail(results))

Message(r, message) ==
    IF message.role \in {"assistant", "user"}
    THEN ToolResults(r, message.results)
    ELSE r

\* lines 244-644: the parts under data["event"], in the order of the code
StartPart(r, f) ==
    IF Has(f, "messageStart") THEN Emit(r, MessageStart(f.messageStart)) ELSE r
ToolDeltaPart(r, f) == IF Has(f, "toolDelta") THEN ToolDelta(r, f.toolDelta) ELSE r
TextPart(r, f, ts) == IF Has(f, "text") THEN TextDelta(r, f.text, ts) ELSE r
BlockStartPart(r, f) == IF Has(f, "blockStart") THEN BlockStart(r, f.blockStart) ELSE r
BlockStopPart(r, f) == IF Has(f, "blockStop") THEN BlockStop(r, f.blockStop) ELSE r
MessageStopPart(r, f) == IF Has(f, "messageStop") THEN MessageStop(r, f.messageStop) ELSE r
MessagePart(r, f) == IF Has(f, "message") THEN Message(r, f.message) ELSE r

EventParts(r, f, ts) ==
    MessageStopPart(
        BlockStopPart(
            BlockStartPart(
                TextPart(ToolDeltaPart(StartPart(r, f), f), f, ts), f), f), f)

NoMessages(p) == [p |-> p, msgs |-> <<>>]

\* _convert_to_websocket_messages
ConvertToWebsocketMessages(p, f, ts) ==
    IF Has(f, "error") THEN Emit(NoMessages(p), ParserError(f.error))
    ELSE IF Has(f, "token_usage") THEN Emit(NoMessages(p), TokenUsage(f.token_usage))
    ELSE MessagePart(EventParts(NoMessages(p), f, ts), f)

\* parse_event of an already decoded frame
ParseEvent(p, f, ts) == ConvertToWebsocketMessages(p, f, ts)

\* ------------------------------------------------------------------ state
VARIABLES
    \* AgentCoreResponseParser (one instance per query)
    buffer, tool_id_map, sent_tool_ids, pending_tool_calls,
    \* the frames the parser was given, with the time of each call, and the
    \* messages it returned, in order
    parsed, out, clock,
    \* a text still to be delivered, cut into frames; or a response body, cut
    \* into chunks
    split_text, split_rest,
    \* AgentCoreClient.invoke_streaming: the worker thread (its position, its
    \* line buffer, the chunks it has read, the event_data it has enqueued and
    \* the terminal signal it has sent), the queue, the consumer loop (its
    \* position and what it has yielded)
    wpc, wbuf, nchunks, decoded, wsignal, event_queue, cpc, yielded,
    \* the bytes of the response body the worker has read, and what ended the
    \* worker when it did not end by itself
    received, wfault,
    \* AWSBedrockAgentProvider.query: where the generator is suspended, its
    \* locals, the events it has yielded, the messages it had saved and the
    \* stop_runtime_session calls made
    pc, session_id, chat_storage, ws_messages, assistant_response, event_count,
    token_usage_data, events, saved, stops,
    \* QueryRegistry._queries and the asyncio.Event of the query
    registry, cancel_event,
    \* sse generate(): open or closed, the units written to the response, the
    \* disconnect watcher, the client connection
    tpc, sent, watching, disconnected,
    \* the cancel requests made, and where the query was when the event was set
    ncancels, cancel_at, cancel_pc, cancel_frames,
    \* the arguments of query(): role, the account ids asked for and the
    \* session id given
    role, account_ids, gcp_account_ids, given_session,
    \* whether query() is iterated to its end by a caller that does not look at
    \* the event, as opposed to generate()
    draining,
    \* the collaborators' answers: whether the user is within the limit of
    \* concurrent queries, the accounts user_storage holds for the user, the
    \* accounts the account storages list for the organisation
    within_limit, allowed_aws_accounts, allowed_gcp_accounts,
    all_aws_accounts_raw, all_gcp_accounts,
    \* chat_storage: the owner of each session
    sessions,
    \* which collaborators raised while the session was bound
    binding,
    \* several queries at one registry: the id, the position and the event of
    \* each, and the QueryRegistry.cancel calls made with what they returned
    pool, calls,
    \* AlertScheduler: the retry limit; _execute_single_alert: its position, the
    \* outcome of each attempt, the waits slept, the last error, the failures
    \* logged and what it returned
    max_retries, apc, attempts, sleeps, last_error, logged, result,
    \* _batch_execute_alerts: the limit of concurrent alerts, its position, the
    \* task of each alert and the results returned
    max_concurrent_alerts, bpc, tasks, processed_results,
    \* _should_execute_alert: the alert, the current time (in hours, UTC) and
    \* the answers returned
    alert, current_time, should_execute

parserVars == <<buffer, tool_id_map, sent_tool_ids, pending_tool_calls>>
feedVars == <<parsed, out, clock>>
splitVars == <<split_text, split_rest>>
workerVars == <<wpc, wbuf, nchunks, decoded, wsignal, received, wfault>>
consumerVars == <<cpc, yielded>>
bridgeVars == <<workerVars, event_queue, consumerVars>>
queryVars ==
    <<pc, session_id, chat_storage, ws_messages, assistant_response, event_count,
      token_usage_data, events, saved, stops>>
registryVars == <<registry, cancel_event>>
transportVars == <<tpc, sent, watching, disconnected>>
cancelVars == <<ncancels, cancel_at, cancel_pc, cancel_frames>>
admissionVars ==
    <<role, account_ids, gcp_account_ids, given_session, within_limit,
      allowed_aws_accounts, allowed_gcp_accounts, all_aws_accounts_raw,
      all_gcp_accounts, draining>>
poolVars == <<pool, calls>>
retryVars == <<max_retries, apc, attempts, sleeps, last_error, logged, result>>
batchVars == <<max_concurrent_alerts, bpc, tasks, processed_results>>
frequencyVars == <<alert, current_time, should_execute>>
alertVars == <<retryVars, batchVars, frequencyVars>>
serviceVars ==
    <<queryVars, registryVars, transportVars, cancelVars, admissionVars, sessions,
      binding, poolVars, alertVars>>
vars == <<parserVars, feedVars, splitVars, bridgeVars, serviceVars>>

Parser ==
    [buffer |-> buffer, tool_id_map |-> tool_id_map,
     sent_tool_ids |-> sent_tool_ids, pending_tool_calls |-> pending_tool_calls]

SetParser(p) ==
    /\ buffer' = p.buffer
    /\ tool_id_map' = p.tool_id_map
    /\ sent_tool_ids' = p.sent_tool_ids
    /\ pending_tool_calls' = p.pending_tool_calls

InitParser ==
    /\ buffer = NewParser.buffer
    /\ tool_id_map = NewParser.tool_id_map
    /\ sent_tool_ids = NewParser.sent_tool_ids
    /\ pending_tool_calls = NewParser.pending_tool_calls
    /\ parsed = <<>>
    /\ out = <<>>
    /\ clock = 0

\* ------------------------------------------------------------ input frames
Param(name, value) == ParamOpen \o <<name>> \o TagEnd \o value \o ParamClose
InvokeHead(name) == InvokeOpen \o <<name>> \o TagEnd
GetCost == InvokeHead("get_cost") \o Param("p", <<"1">>) \o InvokeClose

GetUsage == InvokeHead("get_usage") \o Param("q", <<"2">>) \o InvokeClose
Hello == <<"Hello", WS>>
World == <<"world">>

TextFrames ==
    { [text |-> GetCost],
      [text |-> GetCost \o GetCost],
      [text |-> GetCost \o GetUsage],
      [text |-> Hello],
      [text |-> World],
      [text |-> GetCost \o Param("q", <<"2">>)],
      [text |-> <<"<result>", "{}", "</result>">>] }

ToolFrames ==
    { [blockStart |-> [toolUseId |-> <<"tu1">>, name |-> <<"get_cost">>, index |-> 1]],
      [blockStop |-> 1],
      [message |-> [role |-> "user",
                    results |-> <<[toolUseId |-> <<"tu1">>, status |-> "success"]>>]] }

EndFrames == { [messageStop |-> "end_turn"] }

ParserFrames == TextFrames \cup ToolFrames \cup EndFrames

\* ---------------------------------------------- the parser fed with frames
\* parse_event(f) at time ts; time.time() never runs backwards
Parsed(f, ts, r) ==
    /\ SetParser(r.p)
    /\ parsed' = Append(parsed, [frame |-> f, ts |-> ts])
    /\ out' = out \o r.msgs
    /\ clock' = ts

ParseFrame(f, ts) == Parsed(f, ts, ParseEvent(Parser, f, ts))

Feed ==
    /\ Len(parsed) < MaxFrames
    /\ \E f \in ParserFrames, ts \in clock..Min(clock + 1, MaxClock) :
           ParseFrame(f, ts)
    /\ UNCHANGED <<splitVars, bridgeVars, serviceVars>>

\* the worker has sent no terminal signal yet
NoSignal == [is |-> "unset"]

\* no text to cut
NoSplit ==
    /\ split_text = <<>>
    /\ split_rest = <<>>

\* invoke_streaming not called
NoBridge ==
    /\ wpc = "idle"
    /\ wbuf = <<>>
    /\ nchunks = 0
    /\ decoded = <<>>
    /\ wsignal = NoSignal
    /\ received = <<>>
    /\ wfault = "none"
    /\ event_queue = <<>>
    /\ cpc = "idle"
    /\ yielded = <<>>

\* no query is at the registry
NoPool ==
    /\ pool = <<>>
    /\ calls = <<>>

\* no query is running
NoRun ==
    /\ pc = "idle"
    /\ session_id = None
    /\ chat_storage = FALSE
    /\ ws_messages = <<>>
    /\ assistant_response = <<>>
    /\ event_count = 0
    /\ token_usage_data = None
    /\ events = <<>>
    /\ saved = <<>>
    /\ stops = <<>>
    /\ registry = <<>>
    /\ cancel_event = FALSE
    /\ tpc = "idle"
    /\ sent = <<>>
    /\ watching = FALSE
    /\ disconnected = FALSE
    /\ ncancels = 0
    /\ cancel_at = -1
    /\ cancel_pc = "idle"
    /\ cancel_frames = 0
    /\ role = "admin"
    /\ account_ids = {}
    /\ gcp_account_ids = {}
    /\ given_session = None
    /\ within_limit = TRUE
    /\ allowed_aws_accounts = {}
    /\ allowed_gcp_accounts = {}
    /\ all_aws_accounts_raw = {}
    /\ all_gcp_accounts = {}
    /\ draining = FALSE
    /\ sessions = <<>>
    /\ binding = {}

\* no alert is being executed, no batch is running, no alert is looked at
NoRetry ==
    /\ max_retries = 3
    /\ apc = "idle"
    /\ attempts = <<>>
    /\ sleeps = <<>>
    /\ last_error = None
    /\ logged = 0
    /\ result = None

NoBatch ==
    /\ max_concurrent_alerts = 5
    /\ bpc = "idle"
    /\ tasks = <<>>
    /\ processed_results = <<>>

NoFrequency ==
    /\ alert = [last_checked_at |-> -1, check_frequency |-> "daily"]
    /\ current_time = 0
    /\ should_execute = <<>>

NoAlert == NoRetry /\ NoBatch /\ NoFrequency

NoQuery == NoRun /\ NoPool /\ NoAlert

InitFeed ==
    /\ InitParser
    /\ NoSplit
    /\ NoBridge
    /\ NoQuery

NextFeed == Feed

SpecParser == InitFeed /\ [][NextFeed]_vars

\* ------------------------------------------------- tool call announcements
IsStart(m) == m.type = "tool_call_start"
IsResult(m) == m.type = "tool_call_result"
Starts == {i \in 1..Len(out) : IsStart(out[i])}
FirstStarts == {i \in Starts : ~out[i].update}

Announces(f, ts) ==
    \E k \in 1..Len(ParseEvent(NewParser, f, ts).msgs) :
        IsStart(ParseEvent(NewParser, f, ts).msgs[k])
Derived(m) == Len(m.tool_id) = 4
BlockOf(m) == <<m.tool_id[2], m.tool_id[3]>>

\* C4: an embedded block (same tool name, same arguments) delivered more than
\* once, in one frame or in frames at different times, is announced by at most
\* one tool-call-started event.
C4_SameBlockAnnouncedOnce ==
    \A i, j \in FirstStarts :
        (i # j /\ Derived(out[i]) /\ Derived(out[j]))
            => BlockOf(out[i]) # BlockOf(out[j])

\* C5: each tool-call-result event carries the id of a tool-call-started event
\* emitted earlier in the same sequence.
C5_ResultRefersToEarlierStart ==
    \A j \in 1..Len(out) :
        IsResult(out[j]) =>
            \E i \in 1..(j - 1) :
                IsStart(out[i]) /\ out[i].tool_id = out[j].tool_use_id

\* ------------------------------------------- one text, cut into text frames
SplitTexts ==
    { WrapOpen \o GetCost \o WrapClose,
      <<"a">> \o GetCost \o <<"b">>,
      GetCost \o Param("q", <<"2">>) }

CutSets(text) ==
    {c \in SUBSET (1..(Len(text) - 1)) : Cardinality(c) <= MaxCuts}

\* the pieces of text between the cut positions c, in order
RECURSIVE Pieces(_, _, _)
Pieces(text, c, from) ==
    LET later == {k \in c : k >= from}
        k == CHOOSE x \in later : \A y \in later : x <= y
    IN  IF later = {} THEN <<SubSeq(text, from, Len(text))>>
        ELSE <<SubSeq(text, from, k)>> \o Pieces(text, c, k + 1)

InitSplit ==
    /\ InitParser
    /\ NoBridge
    /\ NoQuery
    /\ split_text \in SplitTexts
    /\ \E c \in CutSets(split_text) : split_rest = Pieces(split_text, c, 1)

\* the next piece arrives as a contentBlockDelta text frame
Deliver ==
    /\ split_rest # <<>>
    /\ \E ts \in clock..Min(clock + 1, MaxClock) :
           ParseFrame([text |-> Head(split_rest)], ts)
    /\ split_rest' = Tail(split_rest)
    /\ UNCHANGED <<split_text, bridgeVars, serviceVars>>

NextSplit == Deliver

SpecSplit == InitSplit /\ [][NextSplit]_vars

\* consecutive text increments read as one
RECURSIVE MergeChunks(_)
MergeChunks(msgs) ==
    IF Len(msgs) < 2 THEN msgs
    ELSE IF msgs[1].type = "chunk" /\ msgs[2].type = "chunk"
    THEN MergeChunks(<<Chunk(msgs[1].content \o msgs[2].content)>> \o Tail(Tail(msgs)))
    ELSE <<Head(msgs)>> \o MergeChunks(Tail(msgs))

\* C6: however the text is cut into frames, once all of it is delivered the
\* events are those of the text delivered in one frame (text increments taken
\* together, tool ids as of the time of the last frame).
C6_SplitInvariance ==
    split_rest = <<>> =>
        MergeChunks(out) = MergeChunks(ParseEvent(NewParser, [text |-> split_text], clock).msgs)

\* ------------------------------------------------------- Runtime Bridge
NL == "\n"
DataPrefix == "data: "

\* what is put on the queue: None, a decoded event_data, an exception object
NoneItem == [is |-> "None"]
FrameItem(f) == [is |-> "frame", v |-> f]
ExcItem(kind) == [is |-> "exc", kind |-> kind]

\* the JSON documents upstream sends, by the atom that stands for their text
JsonDocs ==
    [j \in {"{text:a}", "{text:<invoke}", "{stop}", "{error}"} |->
        CASE j = "{text:a}" -> [text |-> <<"a">>]
          [] j = "{text:<invoke}" -> [text |-> InvokeOpen]
          [] j = "{stop}" -> [messageStop |-> "end_turn"]
          [] j = "{error}" -> [error |-> "boom"]]

\* json.loads(data_str): the document null loads as None
JsonLoads(data_str) ==
    LET t == Strip(data_str)
    IN  IF Len(t) = 1 /\ t[1] = "null" THEN [ok |-> TRUE, v |-> NoneItem]
        ELSE IF Len(t) = 1 /\ t[1] \in DOMAIN JsonDocs
        THEN [ok |-> TRUE, v |-> FrameItem(JsonDocs[t[1]])]
        ELSE [ok |-> FALSE]

\* a byte sequence that is not UTF-8
BadBytes == "\\xff"

\* line_bytes.decode("utf-8") returns
Utf8Ok(bytes) == \A i \in 1..Len(bytes) : bytes[i] # BadBytes

\* asyncio.Queue(): maxsize is 0, and the queue is never full
maxsize == 0

\* lines 353-412 and 448-473: one line of the response; q is the queue, d what
\* was decoded.  A blank line is passed over, the line is decoded as UTF-8,
\* which raises when it cannot be, and a line whose payload json.loads turns
\* down is logged only.
PutLine(line, q, d) ==
    LET line_str == Strip(line)
        loaded == JsonLoads(Tail(line_str))
    IN  IF line_str # <<>> /\ ~Utf8Ok(line)
        THEN [q |-> q, d |-> d, raised |-> TRUE]
        ELSE IF Len(line_str) > 1 /\ Head(line_str) = DataPrefix /\ loaded.ok
        THEN [q |-> Append(q, loaded.v), d |-> Append(d, loaded.v), raised |-> FALSE]
        ELSE [q |-> q, d |-> d, raised |-> FALSE]

\* lines 351-412: while b"\n" in buffer
RECURSIVE SplitLines(_, _, _)
SplitLines(buf, q, d) ==
    LET k == Find(<<NL>>, buf, 1)
        r == PutLine(SubSeq(buf, 1, k - 1), q, d)
    IN  IF k = 0 THEN [buf |-> buf, q |-> q, d |-> d, raised |-> FALSE]
        ELSE IF r.raised
        THEN [buf |-> From(buf, k + 1), q |-> q, d |-> d, raised |-> TRUE]
        ELSE SplitLines(From(buf, k + 1), r.q, r.d)

\* lines 290-308: invoke_agent_runtime returns a response
WorkerInvoke ==
    /\ wpc = "start"
    /\ \E content_type \in {"text/event-stream", "application/json"} :
         IF content_type = "text/event-stream"
         THEN /\ wpc' = "reading"
              /\ UNCHANGED <<wsignal, event_queue>>
         ELSE /\ wpc' = "done"
              /\ wsignal' = NoneItem
              /\ event_queue' = Append(event_queue, NoneItem)
    /\ UNCHANGED <<wbuf, nchunks, decoded, received, wfault>>

\* every fault is sent as an exception
AlwaysRaised(kind) == ExcItem(kind)
\* lines 525-559: what the worker puts on the queue when it is ended by kind
FaultSignal(kind) == IF kind = "IncompleteRead" THEN NoneItem ELSE ExcItem(kind)

\* lines 414-431 and 543-550: decoding a line raised UnicodeDecodeError, an
\* Exception, which ends the worker
Raised(q) ==
    /\ wpc' = "done"
    /\ wsignal' = FaultSignal("Exception")
    /\ wfault' = "UnicodeDecodeError"
    /\ event_queue' = Append(q, FaultSignal("Exception"))

\* each chunk is split into lines by itself, nothing is carried over
ReadAlone(chunk) ==
    LET r == SplitLines(chunk, event_queue, decoded)
    IN  /\ wpc = "reading"
        /\ nchunks < MaxChunks
        /\ nchunks' = nchunks + 1
        /\ received' = received \o chunk
        /\ wbuf' = r.buf
        /\ decoded' = r.d
        /\ IF r.raised
           THEN Raised(r.q)
           ELSE /\ event_queue' = r.q
                /\ UNCHANGED <<wpc, wsignal, wfault>>
\* lines 318-412: one chunk of iter_chunks
ReadChunk(chunk) ==
    LET r == SplitLines(wbuf \o chunk, event_queue, decoded)
    IN  /\ wpc = "reading"
        /\ nchunks < MaxChunks
        /\ nchunks' = nchunks + 1
        /\ received' = received \o chunk
        /\ wbuf' = r.buf
        /\ decoded' = r.d
        /\ IF r.raised
           THEN Raised(r.q)
           ELSE /\ event_queue' = r.q
                /\ UNCHANGED <<wpc, wsignal, wfault>>

\* lines 447-520: the iteration is over; the rest of the buffer is a last
\* line, then the end marker is sent
WorkerEnd ==
    LET r == PutLine(wbuf, event_queue, decoded)
    IN  /\ wpc = "reading"
        /\ decoded' = r.d
        /\ IF r.raised
           THEN Raised(r.q)
           ELSE /\ wpc' = "done"
                /\ wsignal' = NoneItem
                /\ event_queue' = Append(r.q, NoneItem)
                /\ UNCHANGED wfault
        /\ UNCHANGED <<wbuf, nchunks, received>>

WorkerFaults == {"IncompleteRead", "Exception", "BaseException"}

\* lines 525-559: the call or the iteration raises
WorkerFault ==
    /\ wpc \in {"start", "reading"}
    /\ \E kind \in WorkerFaults :
         /\ wfault' = kind
         /\ wsignal' = FaultSignal(kind)
         /\ event_queue' = Append(event_queue, FaultSignal(kind))
    /\ wpc' = "done"
    /\ UNCHANGED <<wbuf, nchunks, decoded, received>>

\* lines 611 and 623: event is None; isinstance(event, Exception)
IsNone(item) == item.is = "None"
IsException(item) == item.is = "exc" /\ item.kind = "Exception"

\* lines 578-638: one turn of the consumer loop
ConsumerNext ==
    /\ cpc = "waiting"
    /\ event_queue # <<>>
    /\ event_queue' = Tail(event_queue)
    /\ LET event == Head(event_queue)
       IN  IF IsNone(event) THEN cpc' = "done" /\ UNCHANGED yielded
           ELSE IF IsException(event) THEN cpc' = "raised" /\ UNCHANGED yielded
           ELSE cpc' = cpc /\ yielded' = Append(yielded, event)

BridgeChunks ==
    { <<DataPrefix, "{text:a}", NL>>,
      <<DataPrefix, "null", NL>>,
      <<DataPrefix, "{bad", NL>>,
      <<DataPrefix, BadBytes, NL, DataPrefix, "{text:a}", NL>>,
      <<DataPrefix, "{stop}">>,
      <<NL>> }

WorkerChunk ==
    /\ \E chunk \in BridgeChunks : ReadChunk(chunk)
    /\ UNCHANGED <<parserVars, feedVars, splitVars, consumerVars, serviceVars>>

BridgeInvoke == WorkerInvoke /\ UNCHANGED <<parserVars, feedVars, splitVars, consumerVars, serviceVars>>
BridgeEnd == WorkerEnd /\ UNCHANGED <<parserVars, feedVars, splitVars, consumerVars, serviceVars>>
BridgeFault == WorkerFault /\ UNCHANGED <<parserVars, feedVars, splitVars, consumerVars, serviceVars>>
BridgeConsume == ConsumerNext /\ UNCHANGED <<parserVars, feedVars, splitVars, workerVars, serviceVars>>

\* the thread is started and the consumer waits on the queue
InitBridge ==
    /\ InitParser
    /\ NoSplit
    /\ NoQuery
    /\ wpc = "start"
    /\ wbuf = <<>>
    /\ nchunks = 0
    /\ decoded = <<>>
    /\ wsignal = NoSignal
    /\ received = <<>>
    /\ wfault = "none"
    /\ event_queue = <<>>
    /\ cpc = "waiting"
    /\ yielded = <<>>

NextBridge ==
    \/ BridgeInvoke
    \/ WorkerChunk
    \/ BridgeEnd
    \/ BridgeFault
    \/ BridgeConsume

SpecBridge == InitBridge /\ [][NextBridge]_vars

IsPrefix(a, b) == Len(a) <= Len(b) /\ a = SubSeq(b, 1, Len(a))

\* C9: the frames the consumer yields are the event_data the worker enqueued,
\* in the same order: never anything else, and all of them once the consumer
\* has ended.
C9_YieldedAreEnqueued ==
    /\ IsPrefix(yielded, decoded)
    /\ cpc # "waiting" => yielded = decoded

\* C10: once the worker has sent its terminal signal and the queue is empty,
\* the consumer has ended: normally after the end marker, by raising after an
\* exception.
C10_ConsumerEnds ==
    (wpc = "done" /\ event_queue = <<>>) =>
        /\ cpc # "waiting"
        /\ wsignal = NoneItem => cpc = "done"
        /\ wsignal # NoneItem => cpc = "raised"

\* a line of the body that holds one record: the prefix and one JSON document
WellFormedLine(line) ==
    /\ Len(Strip(line)) = 2
    /\ Strip(line)[1] = DataPrefix
    /\ Strip(line)[2] \in DOMAIN JsonDocs \cup {"null"}

\* the records of the lines of body, each line ended by a newline
RECURSIVE Records(_)
Records(body) ==
    IF Find(<<NL>>, body, 1) = 0 THEN <<>>
    ELSE (IF WellFormedLine(SubSeq(body, 1, Find(<<NL>>, body, 1) - 1))
          THEN <<JsonLoads(<<Strip(SubSeq(body, 1, Find(<<NL>>, body, 1) - 1))[2]>>).v>>
          ELSE <<>>)
         \o Records(From(body, Find(<<NL>>, body, 1) + 1))

\* C13: a line of the body that cannot be decoded never ends the worker: what
\* the worker has enqueued is, in order, the record of every well-formed line
\* it has read, and a worker that read the body to its end sends the end
\* marker.
C13_MalformedRecordSkipped ==
    /\ wfault # "UnicodeDecodeError"
    /\ wpc = "reading" => decoded = Records(received)
    /\ (wpc = "done" /\ wfault = "none" /\ received # <<>>) =>
           /\ decoded = Records(Append(received, NL))
           /\ wsignal = NoneItem

\* C14: the queue between the worker and the consumer has a capacity: when
\* event_data waits in it, maxsize is positive and no more than maxsize items
\* wait.
C14_QueueBounded ==
    event_queue # <<>> => (maxsize > 0 /\ Len(event_queue) <= maxsize)

\* ------------------------------------------- Registry, Orchestrator, Transport
QueryId == "q1"
SessionIds == {"s1"}
NewSessionId == "s2"

\* the events of AWSBedrockAgentProvider.query
ErrorEvent(content) == [type |-> "error", content |-> content]
Guidance == [type |-> "response"]
SessionCreated(s) == [type |-> "session_created", session_id |-> s]
Status(t) == [type |-> "status", status_type |-> t]
Cancelled == [type |-> "generation_cancelled"]
Complete(success, usage) == [type |-> "complete", success |-> success, token_usage |-> usage]

\* the unit holds no event
Blank(event) == <<DataPrefix, [type |-> "blank"], "\n\n">>
\* f"data: {json.dumps(event)}\n\n"
SSE(event) == <<DataPrefix, event, "\n\n">>

\* QueryRegistry.register: the entry of the id is written, or overwritten
RegistryPut(reg, id, info) ==
    [x \in DOMAIN reg \cup {id} |-> IF x = id THEN info ELSE reg[x]]

\* the entry stays
KeepEntry(reg, id) == reg
\* QueryRegistry.unregister
Unregister(reg, id) == [x \in DOMAIN reg \ {id} |-> reg[x]]

\* every event is set
CancelAll(reg, id, handles) == [i \in DOMAIN handles |-> [handles[i] EXCEPT !.is_set = TRUE]]
\* QueryRegistry.cancel, lines 50-55: the event of the entry of the id is set
RegistryCancel(reg, id, handles) ==
    IF id \in DOMAIN reg
    THEN [handles EXCEPT ![reg[id].cancel_event].is_set = TRUE]
    ELSE handles

\* the event is set; the first time, where the query was is noted
SetCancel ==
    /\ cancel_event' = TRUE
    /\ IF cancel_event
       THEN UNCHANGED <<cancel_at, cancel_pc, cancel_frames>>
       ELSE /\ cancel_at' = Len(sent)
            /\ cancel_pc' = pc
            /\ cancel_frames' = event_count

\* the transport never looks at the event
NeverSeen(flag) == FALSE
\* sse.py line 244: if cancel_event.is_set()
CancelSeen(flag) == flag

\* the generator yields event to generate(), which writes it to the response,
\* or writes the cancellation notice and leaves the loop; the generator then
\* resumes at next. A caller that iterates query() to its end takes the event
\* and resumes the generator
Yield(event, next) ==
    /\ events' = Append(events, event)
    /\ IF draining
       THEN /\ pc' = next
            /\ UNCHANGED <<sent, tpc, watching>>
       ELSE IF CancelSeen(cancel_event)
       THEN /\ sent' = Append(sent, SSE(Cancelled))
            /\ tpc' = "closed"
            /\ watching' = FALSE
            /\ pc' = "abandoned"
       ELSE /\ sent' = Append(sent, SSE(event))
            /\ pc' = next
            /\ UNCHANGED <<tpc, watching>>

\* lines 159-160
Register ==
    /\ pc = "new"
    /\ registry' = RegistryPut(registry, QueryId,
                               [session_id |-> session_id, cancel_event |-> "event"])
    /\ pc' = "checks"
    /\ UNCHANGED <<session_id, chat_storage, ws_messages, assistant_response,
                   event_count, token_usage_data, events, saved, stops>>
    /\ UNCHANGED <<cancel_event, transportVars, cancelVars>>
    /\ UNCHANGED <<parserVars, feedVars, splitVars, bridgeVars>>
    /\ UNCHANGED admissionVars
    /\ UNCHANGED <<sessions, binding, poolVars, alertVars>>

\* the user who submits the query, and another one
UserId == "u1"
Users == {"u1", "u2"}

\* no user is over the limit
Unlimited == TRUE
\* line 165: await resource_manager.check_query_limit(user_id)
check_query_limit == within_limit

\* every role passes
AnyoneElevated == TRUE
\* line 184: role != "admin" is checked, an admin is not
Elevated == role = "admin"

\* lines 185-212: the ids asked for that user_storage does not hold for the user
unauthorized_aws == account_ids \ allowed_aws_accounts
unauthorized_gcp == gcp_account_ids \ allowed_gcp_accounts
Unauthorized == ~Elevated /\ (unauthorized_aws # {} \/ unauthorized_gcp # {})

\* lines 230-246: the accounts of the organisation an admin gets, and the
\* ones any other role gets: its own AWS accounts, and every GCP account
all_aws_accounts ==
    IF role = "admin" THEN all_aws_accounts_raw
    ELSE all_aws_accounts_raw \cap allowed_aws_accounts

\* line 248: not all_aws_accounts and not all_gcp_accounts
NoAccounts == all_aws_accounts = {} /\ all_gcp_accounts = {}

Rejections == {"quota", "permission", "no_accounts", "failure"}

\* lines 165-270: which way the query is turned down; a collaborator that
\* raises turns it down wherever the limit check has let it pass
Rejected(why) ==
    CASE why = "quota" -> ~check_query_limit
      [] why = "permission" -> check_query_limit /\ Unauthorized
      [] why = "no_accounts" -> check_query_limit /\ ~Unauthorized /\ NoAccounts
      [] why = "failure" -> check_query_limit

\* the query gets to the session binding
Admitted == check_query_limit /\ ~Unauthorized /\ ~NoAccounts

\* lines 162-270 and 737-745: the query is turned down before it starts
Reject ==
    /\ pc = "checks"
    /\ \E why \in Rejections :
         /\ Rejected(why)
         /\ Yield(IF why = "no_accounts" THEN Guidance ELSE ErrorEvent(why), "finishing")
    /\ UNCHANGED <<session_id, chat_storage, ws_messages, assistant_response,
                   event_count, token_usage_data, saved, stops>>
    /\ UNCHANGED <<registryVars, disconnected, cancelVars>>
    /\ UNCHANGED <<parserVars, feedVars, splitVars, bridgeVars>>
    /\ UNCHANGED admissionVars
    /\ UNCHANGED <<sessions, binding, poolVars, alertVars>>

BindOutcomes == {"storage_down", "kept", "created_as_given", "created_new", "unbound"}

\* lines 326-328, 344-346 and 347-350: the collaborators that can have raised
\* on the way to each outcome: get_chat_storage, get_session or the
\* create_session of line 304, the create_session of line 334
BindFaults(how) ==
    CASE how = "storage_down" -> {{"storage"}}
      [] how \in {"kept", "created_as_given"} -> {{}}
      [] how = "created_new" ->
             IF session_id = None THEN {{}}
             ELSE IF session_id \in DOMAIN sessions /\ sessions[session_id] # UserId
             THEN {{}, {"lookup"}}
             ELSE {{"lookup"}}
      [] how = "unbound" ->
             IF session_id = None THEN {{"create"}}
             ELSE IF session_id \in DOMAIN sessions /\ sessions[session_id] # UserId
             THEN {{"create"}, {"lookup", "create"}}
             ELSE {{"lookup", "create"}}

\* chat_storage.create_session: the session is the user's
Created(store, id) ==
    [x \in DOMAIN store \cup {id} |-> IF x = id THEN UserId ELSE store[x]]

\* any session id is taken as it is given
AlwaysBindable(how) == TRUE
\* lines 296-329: what get_session lets happen to the id given: an unknown id
\* is created, the user's own session is reused, and any other case, a
\* raising collaborator included, leaves no session id
Bindable(how) ==
    CASE how = "kept" ->
             /\ session_id # None
             /\ session_id \in DOMAIN sessions
             /\ sessions[session_id] = UserId
      [] how = "created_as_given" ->
             /\ session_id # None
             /\ session_id \notin DOMAIN sessions
      [] OTHER -> TRUE

\* lines 291-359: the session is bound
BindSession ==
    /\ pc = "checks"
    /\ Admitted
    /\ \E how \in BindOutcomes :
         /\ Bindable(how)
         /\ binding' \in BindFaults(how)
         /\ sessions' = CASE how = "created_as_given" -> Created(sessions, session_id)
                           [] how = "created_new" -> Created(sessions, NewSessionId)
                           [] OTHER -> sessions
         /\ chat_storage' = (how # "storage_down")
         /\ session_id' = CASE how \in {"kept", "created_as_given"} -> session_id
                            [] how = "created_new" -> NewSessionId
                            [] OTHER -> None
         /\ IF how \in {"created_as_given", "created_new"}
            THEN Yield(SessionCreated(session_id'), "init_status")
            ELSE Yield(Status("initializing"), "acct")
    /\ UNCHANGED <<ws_messages, assistant_response, event_count,
                   token_usage_data, saved, stops>>
    /\ UNCHANGED <<registryVars, disconnected, cancelVars>>
    /\ UNCHANGED <<parserVars, feedVars, splitVars, bridgeVars>>
    /\ UNCHANGED admissionVars
    /\ UNCHANGED <<poolVars, alertVars>>

\* lines 353-359
InitStatus ==
    /\ pc = "init_status"
    /\ Yield(Status("initializing"), "acct")
    /\ UNCHANGED <<session_id, chat_storage, ws_messages, assistant_response,
                   event_count, token_usage_data, saved, stops>>
    /\ UNCHANGED <<registryVars, disconnected, cancelVars>>
    /\ UNCHANGED <<parserVars, feedVars, splitVars, bridgeVars>>
    /\ UNCHANGED admissionVars
    /\ UNCHANGED <<sessions, binding, poolVars, alertVars>>

\* the message is saved whether or not there is a session
SaveAlways(kind) == saved' = Append(saved, kind)
\* chat_storage.save_message in the executor; its failure is logged only
Save(kind) ==
    IF chat_storage /\ session_id # None
    THEN \E ok \in BOOLEAN : saved' = IF ok THEN Append(saved, kind) ELSE saved
    ELSE UNCHANGED saved

\* lines 366-527: account lookup, the user's message saved, the parser made
AccountInfo ==
    /\ pc = "acct"
    /\ \E found \in BOOLEAN :
         IF found
         THEN Save("user") /\ Yield(Status("processing"), "invoke")
         ELSE UNCHANGED saved /\ Yield(ErrorEvent("account_info"), "finishing")
    /\ UNCHANGED <<session_id, chat_storage, ws_messages, assistant_response,
                   event_count, token_usage_data, stops>>
    /\ UNCHANGED <<registryVars, disconnected, cancelVars>>
    /\ UNCHANGED <<parserVars, feedVars, splitVars, bridgeVars>>
    /\ UNCHANGED admissionVars
    /\ UNCHANGED <<sessions, binding, poolVars, alertVars>>

\* lines 534-557: invoke_streaming; the first anext starts the worker thread
Invoke ==
    /\ pc = "invoke"
    /\ pc' = "loop"
    /\ wpc' = "start"
    /\ cpc' = "waiting"
    /\ UNCHANGED <<wbuf, nchunks, decoded, wsignal, received, wfault,
                   event_queue, yielded>>
    /\ UNCHANGED <<session_id, chat_storage, ws_messages, assistant_response,
                   event_count, token_usage_data, events, saved, stops>>
    /\ UNCHANGED <<registryVars, transportVars, cancelVars>>
    /\ UNCHANGED <<parserVars, feedVars, splitVars>>
    /\ UNCHANGED admissionVars
    /\ UNCHANGED <<sessions, binding, poolVars, alertVars>>

StopOutcomes == {"stopped", "raised"}

\* client.stop_runtime_session(session): the session is stopped, or the call
\* raises; the caller goes on in each case
StopSession(session) ==
    IF session # None
    THEN \E outcome \in StopOutcomes :
             stops' = Append(stops, [session |-> session, outcome |-> outcome])
    ELSE UNCHANGED stops

\* the check is left out
NeverSet(flag) == FALSE
\* line 572: if cancel_event and cancel_event.is_set()
CancelIsSet(flag) == flag

\* line 610 and 614: the text of chunk and error messages is collected
RECURSIVE Collect(_, _)
Collect(response, msgs) ==
    IF msgs = <<>> THEN response
    ELSE IF Head(msgs).type \in {"chunk", "error"}
    THEN Collect(response \o Head(msgs).content, Tail(msgs))
    ELSE Collect(response, Tail(msgs))

\* line 601: the last token_usage message of the frame
RECURSIVE LastUsage(_, _)
LastUsage(usage, msgs) ==
    IF msgs = <<>> THEN usage
    ELSE IF Head(msgs).type = "token_usage"
    THEN LastUsage(Head(msgs).usage, Tail(msgs))
    ELSE LastUsage(usage, Tail(msgs))

\* a reply that could not be saved is reported as an error
AfterLoopSurfacing ==
    IF Strip(assistant_response) = <<>>
    THEN UNCHANGED saved /\ Yield(Complete(FALSE, None), "metrics")
    ELSE \E ok \in BOOLEAN :
             IF ok \/ ~chat_storage \/ session_id = None
             THEN /\ saved' = IF chat_storage /\ session_id # None
                               THEN Append(saved, "assistant") ELSE saved
                  /\ Yield(Complete(TRUE, token_usage_data), "metrics")
             ELSE UNCHANGED saved /\ Yield(ErrorEvent("save"), "finishing")
\* lines 654-719: the stream is over; an empty reply is a failure, any other
\* reply is saved and reported as a success
AfterLoop ==
    IF Strip(assistant_response) = <<>>
    THEN UNCHANGED saved /\ Yield(Complete(FALSE, None), "metrics")
    ELSE Save("assistant") /\ Yield(Complete(TRUE, token_usage_data), "metrics")

\* the exception is dropped
Swallowed(e) == pc' = "finishing" /\ UNCHANGED <<events, sent, tpc, watching>>
\* lines 729-736: except Exception as e, the error event of the exception
OnException(e) == Yield(ErrorEvent(e), "finishing")

\* lines 593-618: the frame is parsed and its first message yielded
Forward(event, r) ==
    /\ event_count' = event_count + 1
    /\ Parsed(event, clock, r)
    /\ assistant_response' = Collect(assistant_response, r.msgs)
    /\ token_usage_data' = LastUsage(token_usage_data, r.msgs)
    /\ IF r.msgs = <<>>
       THEN /\ ws_messages' = <<>>
            /\ UNCHANGED <<pc, events, sent, tpc, watching>>
       ELSE /\ ws_messages' = Tail(r.msgs)
            /\ Yield(Head(r.msgs), "loop")

\* parse_event returns no message for what is not a dict
ParseAny(event) ==
    IF event.is = "frame" THEN ParseEvent(Parser, event.v, clock)
    ELSE NoMessages(Parser)

ForwardFrame(event) == Forward(event, ParseAny(event))

\* lines 554-652: one turn of the loop, from anext(event_iter) to the next yield
StreamNext ==
    /\ pc = "loop"
    /\ ws_messages = <<>>
    /\ ConsumerNext
    /\ LET event == Head(event_queue)
       IN  IF cpc' = "done"
           THEN /\ AfterLoop
                /\ UNCHANGED <<ws_messages, assistant_response, event_count,
                               token_usage_data, stops, parserVars, feedVars>>
           ELSE IF cpc' = "raised"
           THEN /\ OnException("query_failed")
                /\ UNCHANGED <<ws_messages, assistant_response, event_count,
                               token_usage_data, saved, stops, parserVars, feedVars>>
           ELSE IF CancelIsSet(cancel_event)
           THEN /\ StopSession(session_id)
                /\ Yield(Cancelled, "cancelled")
                /\ UNCHANGED <<ws_messages, assistant_response, event_count,
                               token_usage_data, saved, parserVars, feedVars>>
           ELSE /\ ForwardFrame(event)
                /\ UNCHANGED <<saved, stops>>
    /\ UNCHANGED <<session_id, chat_storage>>
    /\ UNCHANGED <<registryVars, disconnected, cancelVars>>
    /\ UNCHANGED <<splitVars, workerVars>>
    /\ UNCHANGED admissionVars
    /\ UNCHANGED <<sessions, binding, poolVars, alertVars>>

\* lines 591 and 654-719: the break after the cancellation notice leaves the
\* loop, and the generator, when resumed, goes on after the loop
AfterCancel ==
    /\ pc = "cancelled"
    /\ AfterLoop
    /\ UNCHANGED <<session_id, chat_storage, ws_messages, assistant_response,
                   event_count, token_usage_data, stops>>
    /\ UNCHANGED <<registryVars, disconnected, cancelVars>>
    /\ UNCHANGED <<parserVars, feedVars, splitVars, bridgeVars>>
    /\ UNCHANGED admissionVars
    /\ UNCHANGED <<sessions, binding, poolVars, alertVars>>

\* lines 617-618: the next message of the frame is yielded
YieldNext ==
    /\ pc = "loop"
    /\ ws_messages # <<>>
    /\ Yield(Head(ws_messages), "loop")
    /\ ws_messages' = Tail(ws_messages)
    /\ UNCHANGED <<session_id, chat_storage, assistant_response, event_count,
                   token_usage_data, saved, stops>>
    /\ UNCHANGED <<registryVars, disconnected, cancelVars>>
    /\ UNCHANGED <<parserVars, feedVars, splitVars, bridgeVars>>
    /\ UNCHANGED admissionVars
    /\ UNCHANGED <<sessions, binding, poolVars, alertVars>>

\* lines 721-749 and sse.py 264-270: the completion event was taken; the
\* metrics are recorded and the generator runs to its end, through the finally
\* clause, and generate() ends with it, or recording raises and the error
\* event is yielded
RecordMetrics ==
    /\ pc = "metrics"
    /\ \E raised \in BOOLEAN :
         IF raised
         THEN /\ OnException("metrics")
              /\ UNCHANGED registry
         ELSE /\ registry' = Unregister(registry, QueryId)
              /\ pc' = "done"
              /\ tpc' = "closed"
              /\ watching' = FALSE
              /\ UNCHANGED <<events, sent>>
    /\ UNCHANGED <<session_id, chat_storage, ws_messages, assistant_response,
                   event_count, token_usage_data, saved, stops>>
    /\ UNCHANGED <<cancel_event, disconnected, cancelVars>>
    /\ UNCHANGED <<parserVars, feedVars, splitVars, bridgeVars>>
    /\ UNCHANGED admissionVars
    /\ UNCHANGED <<sessions, binding, poolVars, alertVars>>

\* lines 746-749 and sse.py 264-270: the generator runs to its end, through the
\* finally clause, and generate() ends with it
Finish ==
    /\ pc = "finishing"
    /\ registry' = Unregister(registry, QueryId)
    /\ pc' = "done"
    /\ tpc' = "closed"
    /\ watching' = FALSE
    /\ UNCHANGED <<session_id, chat_storage, ws_messages, assistant_response,
                   event_count, token_usage_data, events, saved, stops>>
    /\ UNCHANGED <<cancel_event, sent, disconnected, cancelVars>>
    /\ UNCHANGED <<parserVars, feedVars, splitVars, bridgeVars>>
    /\ UNCHANGED admissionVars
    /\ UNCHANGED <<sessions, binding, poolVars, alertVars>>

\* the generator is closed and its registry entry stays
Dropped ==
    /\ pc = "abandoned"
    /\ pc' = "closed"
    /\ UNCHANGED registry
    /\ UNCHANGED <<session_id, chat_storage, ws_messages, assistant_response,
                   event_count, token_usage_data, events, saved, stops>>
    /\ UNCHANGED <<cancel_event, transportVars, cancelVars>>
    /\ UNCHANGED <<parserVars, feedVars, splitVars, bridgeVars>>
    /\ UNCHANGED admissionVars
    /\ UNCHANGED <<sessions, binding, poolVars, alertVars>>
\* lines 746-749: the generator generate() has left is closed where it is
\* suspended, and its finally clause runs
Finalize ==
    /\ pc = "abandoned"
    /\ registry' = Unregister(registry, QueryId)
    /\ pc' = "closed"
    /\ UNCHANGED <<session_id, chat_storage, ws_messages, assistant_response,
                   event_count, token_usage_data, events, saved, stops>>
    /\ UNCHANGED <<cancel_event, transportVars, cancelVars>>
    /\ UNCHANGED <<parserVars, feedVars, splitVars, bridgeVars>>
    /\ UNCHANGED admissionVars
    /\ UNCHANGED <<sessions, binding, poolVars, alertVars>>

\* lines 751-776: AWSBedrockAgentProvider.cancel(query_id)
Cancel ==
    /\ ncancels < MaxCancels
    /\ ncancels' = ncancels + 1
    /\ IF QueryId \in DOMAIN registry
       THEN SetCancel /\ StopSession(registry[QueryId].session_id)
       ELSE UNCHANGED <<cancel_event, cancel_at, cancel_pc, cancel_frames, stops>>
    /\ UNCHANGED <<pc, session_id, chat_storage, ws_messages, assistant_response,
                   event_count, token_usage_data, events, saved>>
    /\ UNCHANGED <<registry, transportVars>>
    /\ UNCHANGED <<parserVars, feedVars, splitVars, bridgeVars>>
    /\ UNCHANGED admissionVars
    /\ UNCHANGED <<sessions, binding, poolVars, alertVars>>

\* the client goes away
Disconnect ==
    /\ tpc = "open"
    /\ ~disconnected
    /\ disconnected' = TRUE
    /\ UNCHANGED <<tpc, sent, watching>>
    /\ UNCHANGED <<queryVars, registryVars, cancelVars>>
    /\ UNCHANGED <<parserVars, feedVars, splitVars, bridgeVars>>
    /\ UNCHANGED admissionVars
    /\ UNCHANGED <<sessions, binding, poolVars, alertVars>>

\* the watcher ends and sets nothing
Ignored == UNCHANGED <<cancel_event, cancel_at, cancel_pc, cancel_frames>>
\* sse.py line 214: cancel_event.set()
OnDisconnect == SetCancel

\* sse.py lines 196-220: watch_disconnect sees the client gone
WatchDisconnect ==
    /\ watching
    /\ disconnected
    /\ OnDisconnect
    /\ watching' = FALSE
    /\ UNCHANGED <<tpc, sent, disconnected>>
    /\ UNCHANGED <<queryVars, registry, ncancels>>
    /\ UNCHANGED <<parserVars, feedVars, splitVars, bridgeVars>>
    /\ UNCHANGED admissionVars
    /\ UNCHANGED <<sessions, binding, poolVars, alertVars>>

\* sse.py lines 225-270: the task that runs generate() is cancelled.  While
\* generate() waits for the next event, CancelledError is raised inside
\* query(), passes its except clauses and runs its finally clause
\* (agent_provider.py lines 737-749), and generate() sets the event (line
\* 253).  While generate() is suspended at its own yield, it is closed there
\* and leaves query() suspended, to be closed later.
TaskCancelled ==
    /\ tpc = "open"
    /\ pc \notin {"idle", "done", "closed", "abandoned"}
    /\ tpc' = "closed"
    /\ watching' = FALSE
    /\ \E at \in {"next", "yield"} :
         IF at = "next"
         THEN /\ registry' = Unregister(registry, QueryId)
              /\ pc' = "closed"
              /\ SetCancel
         ELSE /\ sent # <<>>
              /\ pc' = "abandoned"
              /\ UNCHANGED <<registry, cancel_event, cancel_at, cancel_pc, cancel_frames>>
    /\ UNCHANGED <<session_id, chat_storage, ws_messages, assistant_response,
                   event_count, token_usage_data, events, saved, stops>>
    /\ UNCHANGED <<sent, disconnected, ncancels>>
    /\ UNCHANGED <<parserVars, feedVars, splitVars, bridgeVars>>
    /\ UNCHANGED admissionVars
    /\ UNCHANGED <<sessions, binding, poolVars, alertVars>>

DataLine(j) == <<DataPrefix, j, NL>>

\* a chunk of the response holds one record, or two
QueryChunks ==
    {DataLine(j) : j \in DOMAIN JsonDocs}
        \cup {DataLine("{text:a}") \o DataLine("{text:a}")}

UpstreamChunk ==
    /\ \E chunk \in QueryChunks : ReadChunk(chunk)
    /\ UNCHANGED <<parserVars, feedVars, splitVars, consumerVars, serviceVars>>

\* the arguments of a query and the answers of the collaborators
Request(r, aws, gcp, limit, own_aws, own_gcp, org_aws, org_gcp) ==
    [role |-> r, account_ids |-> aws, gcp_account_ids |-> gcp,
     within_limit |-> limit, allowed_aws_accounts |-> own_aws,
     allowed_gcp_accounts |-> own_gcp, all_aws_accounts_raw |-> org_aws,
     all_gcp_accounts |-> org_gcp]

\* a session id given, and the sessions chat_storage holds
Given(id, store) == [given_session |-> id, sessions |-> store]

Roles == {"admin", "user"}
AwsIds == {"a1"}
GcpIds == {"g1"}

\* an admin of an organisation with an account, who reuses a session; a user
\* who asks for an account that is not the user's; a user of an organisation
\* without accounts; an admin over the limit
Queries ==
    { <<Request("admin", {}, {}, TRUE, {}, {}, {"a1"}, {}),
        Given("s1", [x \in {"s1"} |-> UserId])>>,
      <<Request("user", {"a1"}, {}, TRUE, {}, {}, {"a1"}, {}), Given(None, <<>>)>>,
      <<Request("user", {}, {}, TRUE, {}, {}, {}, {}), Given(None, <<>>)>>,
      <<Request("admin", {}, {}, FALSE, {}, {}, {"a1"}, {}), Given(None, <<>>)>> }

\* every query over the ids above, with no session id, the id of no session,
\* of a session of the user, of a session of another user
AllQueries ==
    { Request(r, aws, gcp, limit, own_aws, own_gcp, org_aws, org_gcp) :
        r \in Roles, aws \in SUBSET AwsIds, gcp \in SUBSET GcpIds,
        limit \in BOOLEAN, own_aws \in SUBSET AwsIds, own_gcp \in SUBSET GcpIds,
        org_aws \in SUBSET AwsIds, org_gcp \in SUBSET GcpIds }
    \X ( {Given(None, <<>>)}
         \cup {Given(id, <<>>) : id \in SessionIds}
         \cup {Given(id, [x \in {id} |-> u]) : id \in SessionIds, u \in Users} )

\* query() is called with an event: by generate(), which has started the
\* watcher, or by a caller that iterates it to its end
Started(q, drain) ==
    /\ InitParser
    /\ NoSplit
    /\ NoBridge
    /\ NoPool
    /\ NoAlert
    /\ draining = drain
    /\ binding = {}
    /\ role = q[1].role
    /\ account_ids = q[1].account_ids
    /\ gcp_account_ids = q[1].gcp_account_ids
    /\ within_limit = q[1].within_limit
    /\ allowed_aws_accounts = q[1].allowed_aws_accounts
    /\ allowed_gcp_accounts = q[1].allowed_gcp_accounts
    /\ all_aws_accounts_raw = q[1].all_aws_accounts_raw
    /\ all_gcp_accounts = q[1].all_gcp_accounts
    /\ given_session = q[2].given_session
    /\ sessions = q[2].sessions
    /\ pc = "new"
    /\ session_id = q[2].given_session
    /\ chat_storage = FALSE
    /\ ws_messages = <<>>
    /\ assistant_response = <<>>
    /\ event_count = 0
    /\ token_usage_data = None
    /\ events = <<>>
    /\ saved = <<>>
    /\ stops = <<>>
    /\ registry = <<>>
    /\ cancel_event = FALSE
    /\ tpc = IF drain THEN "idle" ELSE "open"
    /\ sent = <<>>
    /\ watching = ~drain
    /\ disconnected = FALSE
    /\ ncancels = 0
    /\ cancel_at = -1
    /\ cancel_pc = "idle"
    /\ cancel_frames = 0

\* generate() has created the event, started the watcher and called query()
Submitted(q) == Started(q, FALSE)

Init == \E q \in Queries : Submitted(q)

Next ==
    \/ Register
    \/ Reject
    \/ BindSession
    \/ InitStatus
    \/ AccountInfo
    \/ Invoke
    \/ StreamNext
    \/ YieldNext
    \/ RecordMetrics
    \/ Finish
    \/ Finalize
    \/ Cancel
    \/ Disconnect
    \/ WatchDisconnect
    \/ BridgeInvoke
    \/ UpstreamChunk
    \/ BridgeEnd
    \/ BridgeFault

Spec == Init /\ [][Next]_vars

\* query() iterated to its end by a caller other than generate(): the query of
\* an admin of an organisation with an account, who reuses a session
DrainQueries ==
    { <<Request("admin", {}, {}, TRUE, {}, {}, {"a1"}, {}),
        Given("s1", [x \in {"s1"} |-> UserId])>> }

InitDrain == \E q \in DrainQueries : Started(q, TRUE)

NextDrain ==
    \/ Register
    \/ BindSession
    \/ InitStatus
    \/ AccountInfo
    \/ Invoke
    \/ StreamNext
    \/ YieldNext
    \/ AfterCancel
    \/ RecordMetrics
    \/ Finish
    \/ Cancel
    \/ BridgeInvoke
    \/ UpstreamChunk
    \/ BridgeEnd
    \/ BridgeFault

SpecDrain == InitDrain /\ [][NextDrain]_vars

\* the watcher is a task of the event loop that polls every 100 ms
\* (sse.py lines 211-216): while the client is gone and the task is alive, it
\* gets its turn
SpecWatch == Init /\ [][Next]_vars /\ WF_vars(WatchDisconnect)

\* ---------------------------------------------- several queries, one registry
PoolQueries == {1, 2}
PoolIds == {"q1", "q2"}
MaxCalls == 2

\* each query has its query id, given by its client, and its own event
InitPool ==
    /\ InitParser
    /\ NoSplit
    /\ NoBridge
    /\ NoRun
    /\ NoAlert
    /\ pool \in [PoolQueries -> {[id |-> d, at |-> "new", is_set |-> FALSE] : d \in PoolIds}]
    /\ calls = <<>>

PoolRest ==
    UNCHANGED <<parserVars, feedVars, splitVars, bridgeVars, queryVars, cancel_event,
                transportVars, cancelVars, admissionVars, sessions, binding,
                alertVars>>

\* agent_provider.py lines 159-160: a query registers its event under its id
PoolRegister ==
    /\ \E i \in PoolQueries :
         /\ pool[i].at = "new"
         /\ registry' = RegistryPut(registry, pool[i].id,
                                    [session_id |-> None, cancel_event |-> i])
         /\ pool' = [pool EXCEPT ![i].at = "registered"]
    /\ UNCHANGED calls
    /\ PoolRest

\* agent_provider.py lines 746-749: a query ends and unregisters its id
PoolUnregister ==
    /\ \E i \in PoolQueries :
         /\ pool[i].at = "registered"
         /\ registry' = Unregister(registry, pool[i].id)
         /\ pool' = [pool EXCEPT ![i].at = "finished"]
    /\ UNCHANGED calls
    /\ PoolRest

\* QueryRegistry.cancel(query_id), lines 47-57, with what it returns
PoolCancel ==
    /\ Len(calls) < MaxCalls
    /\ \E id \in PoolIds :
         /\ pool' = RegistryCancel(registry, id, pool)
         /\ calls' = Append(calls, [id |-> id, found |-> id \in DOMAIN registry])
    /\ UNCHANGED registry
    /\ PoolRest

NextPool ==
    \/ PoolRegister
    \/ PoolUnregister
    \/ PoolCancel

SpecRegistry == InitPool /\ [][NextPool]_vars

\* every query, up to the call of the Bridge
InitAdmit == \E q \in AllQueries : Submitted(q)

NextAdmit ==
    \/ Register
    \/ Reject
    \/ BindSession
    \/ InitStatus
    \/ AccountInfo
    \/ Invoke
    \/ Finish
    \/ Finalize
    \/ Cancel
    \/ Disconnect
    \/ WatchDisconnect

SpecAdmit == InitAdmit /\ [][NextAdmit]_vars

\* ------------------------------------------------------ the visible stream
Terminal(event) == event.type \in {"error", "complete", "generation_cancelled"}
SentEvent(i) == sent[i][2]

\* C1: the sequence of a query, as the transport has written it when it
\* closes, holds exactly one terminal event (error, completion or cancellation
\* notice), and that event is its last.
C1_OneTerminalLast ==
    tpc = "closed" =>
        /\ sent # <<>>
        /\ Terminal(SentEvent(Len(sent)))
        /\ \A i \in 1..(Len(sent) - 1) : ~Terminal(SentEvent(i))

\* C2: once the sequence of the query is drained to its end, whatever its
\* outcome, the registry holds no entry under the query id.
C2_DrainedIsUnregistered ==
    pc = "done" => QueryId \notin DOMAIN registry

\* a query that streamed frames is drained after its completion event
C2_DrainedAfterStreaming ==
    /\ pc = "done"
    /\ event_count > 0
    /\ events[Len(events)].type = "complete"
    /\ QueryId \notin DOMAIN registry

\* C7: from the moment the event is set, nothing is written to the response
\* but one cancellation notice, with which the response closes; when the event
\* was set while frames were streaming, a closed response ends with that notice.
C7_CancelEndsStream ==
    cancel_at >= 0 =>
        /\ Len(sent) <= cancel_at + 1
        /\ Len(sent) = cancel_at + 1 =>
               (sent[Len(sent)] = SSE(Cancelled) /\ tpc = "closed")
        /\ (tpc = "closed" /\ cancel_pc = "loop") => Len(sent) = cancel_at + 1

\* the event was set after two frames, the next frame was answered with the
\* cancellation notice, and the worker is still reading
C7_CancelledAfterTwoFrames ==
    /\ cancel_pc = "loop"
    /\ cancel_frames = 2
    /\ tpc = "closed"
    /\ sent[Len(sent)] = SSE(Cancelled)
    /\ events[Len(events)] = Cancelled
    /\ wpc = "reading"

\* C8: a frame taken from the queue while the event is set is neither parsed
\* nor forwarded: the cancellation notice is yielded, the session is asked to
\* stop when one is bound, whatever the answer, and no frame is taken from the
\* queue except in the loop, which the generator has then left.
C8_CancelCheckedBeforeFrame ==
    [][LET took == event_queue # <<>> /\ event_queue' = Tail(event_queue)
           frame == ~IsNone(Head(event_queue)) /\ ~IsException(Head(event_queue))
       IN  /\ took => pc = "loop"
           /\ (took /\ cancel_event /\ frame) =>
                  /\ UNCHANGED <<parserVars, out, event_count, ws_messages>>
                  /\ events' = Append(events, Cancelled)
                  /\ pc' # "loop"
                  /\ IF session_id # None
                     THEN /\ Len(stops') = Len(stops) + 1
                          /\ stops'[Len(stops')].session = session_id
                     ELSE stops' = stops]_vars

\* the watcher set the event, the stop request raised, the notice was yielded
\* all the same and frames are left in the queue
C8_CancelledWithFramesLeft ==
    /\ ncancels = 0
    /\ cancel_pc = "loop"
    /\ events # <<>>
    /\ events[Len(events)] = Cancelled
    /\ stops # <<>>
    /\ stops[Len(stops)].outcome = "raised"
    /\ event_queue # <<>>
    /\ pc \in {"abandoned", "closed"}

\* ------------------------------------------------- a truncated response
\* C11: when the read of the response body is cut short (IncompleteRead) after
\* event_data was enqueued, the worker sends the end marker and no exception,
\* what it had enqueued stays in the queue in its order and is all yielded,
\* the query yields no error event of its own, and a query that runs to its
\* end with a reply assembled ends with the completion event that reports
\* success.
C11_TruncationIsSoftEnd ==
    (wfault = "IncompleteRead" /\ decoded # <<>>) =>
        /\ wsignal = NoneItem
        /\ cpc # "raised"
        /\ cpc = "waiting" => yielded \o event_queue = Append(decoded, NoneItem)
        /\ cpc = "done" => yielded = decoded
        /\ \A i \in 1..Len(events) : events[i] # ErrorEvent("query_failed")
        /\ (pc = "done" /\ Strip(assistant_response) # <<>>) =>
               \E i \in 1..Len(events) : events[i] = Complete(TRUE, token_usage_data)

\* the body was cut short after two records, both were forwarded, and the
\* query ended with the completion event that reports success
C11_TruncatedThenCompleted ==
    /\ wfault = "IncompleteRead"
    /\ Len(decoded) = 2
    /\ yielded = decoded
    /\ pc = "done"
    /\ events[Len(events)] = Complete(TRUE, token_usage_data)
    /\ saved # <<>>
    /\ saved[Len(saved)] = "assistant"

\* C12: when the read of the response body is cut short (IncompleteRead) and
\* no event_data was enqueued, the worker sends the exception and not the end
\* marker, and a query that runs to its end ends with an error event.
C12_TruncationWithoutFramesIsRaised ==
    (wfault = "IncompleteRead" /\ decoded = <<>>) =>
        /\ wsignal # NoneItem
        /\ pc = "done" => events[Len(events)].type = "error"

\* ------------------------------------------------- how a query ends
\* the text of the chunk events among evs
RECURSIVE ChunkText(_)
ChunkText(evs) ==
    IF evs = <<>> THEN <<>>
    ELSE IF Head(evs).type = "chunk" THEN Head(evs).content \o ChunkText(Tail(evs))
    ELSE ChunkText(Tail(evs))

\* the stream of frames has ended and the query has yielded its completion
Ended == cpc = "done" /\ pc \in {"metrics", "finishing", "done"}

\* C15: when the stream has ended and the text of the chunk events yielded is
\* empty or blank, the query has yielded the completion event with
\* success=false, and no completion event with success=true.
C15_EmptyReplyIsFailure ==
    (Ended /\ Strip(ChunkText(events)) = <<>>) =>
        /\ \E i \in 1..Len(events) : events[i] = Complete(FALSE, None)
        /\ \A i \in 1..Len(events) :
               events[i].type = "complete" => ~events[i].success

\* the error events the generator makes of an exception caught while streaming
StreamingErrors == {ErrorEvent("query_failed"), ErrorEvent("metrics")}

\* C16: an exception raised while streaming (by the consumer of the queue, or
\* by the metrics after the completion event) is turned into one error event:
\* the generator goes on to its end, that error event is the only one of its
\* kind, and no event follows it.
C16_ExceptionIsOneErrorEvent ==
    /\ cpc = "raised" =>
           /\ pc \in {"finishing", "done", "abandoned", "closed"}
           /\ events[Len(events)] = ErrorEvent("query_failed")
    /\ \A i \in 1..Len(events) : events[i] \in StreamingErrors => i = Len(events)

\* the consumer raised after frames were forwarded, and the query was drained
\* to its end
C16_RaisedAfterFrames ==
    /\ cpc = "raised"
    /\ event_count > 0
    /\ pc = "done"
    /\ events[Len(events)] = ErrorEvent("query_failed")

\* ------------------------------------------------- admission and sessions
\* the generator has passed the checks, or was turned down by them
PastChecks == pc \notin {"idle", "new", "checks"}
Terminated == pc \in {"finishing", "done", "abandoned", "closed"}
NoSessionCreated ==
    /\ \A i \in 1..Len(events) : events[i].type # "session_created"
    /\ NewSessionId \notin DOMAIN sessions
    /\ session_id = given_session
    /\ chat_storage = FALSE

\* C17: a query of a role other than admin that asks for an account
\* user_storage does not hold for the user yields one error event and ends:
\* invoke_streaming is not called, no session is created or bound, no message
\* is saved; and a query of an admin is never turned down for its accounts.
C17_UnauthorizedIsRejected ==
    /\ (PastChecks /\ role # "admin"
            /\ (unauthorized_aws \cup unauthorized_gcp) # {}) =>
           /\ Len(events) = 1
           /\ events[1].type = "error"
           /\ Terminated
           /\ wpc = "idle"
           /\ saved = <<>>
           /\ NoSessionCreated
    /\ role = "admin" =>
           \A i \in 1..Len(events) : events[i] # ErrorEvent("permission")

\* a user who asked for a GCP account only, which is not the user's, was
\* turned down, and the query was drained
C17_GcpAccountRefused ==
    /\ role = "user"
    /\ account_ids = {}
    /\ unauthorized_gcp # {}
    /\ within_limit
    /\ pc = "done"
    /\ events = <<ErrorEvent("permission")>>

\* C18: a query of a user over the limit of concurrent queries yields the
\* error event as its only event and ends before streaming: no session is
\* created, nothing is saved and invoke_streaming is not called.
C18_OverLimitIsRejected ==
    (PastChecks /\ ~within_limit) =>
        /\ events = <<ErrorEvent("quota")>>
        /\ Terminated
        /\ wpc = "idle"
        /\ saved = <<>>
        /\ NoSessionCreated

\* a query over the limit that gave the id of a session still to be created
\* was turned down, and the query was drained
C18_OverLimitWithSessionId ==
    /\ ~within_limit
    /\ given_session # None
    /\ given_session \notin DOMAIN sessions
    /\ pc = "done"
    /\ events = <<ErrorEvent("quota")>>

\* the accounts of the organisation the principal may use: all of them for an
\* admin, for any other role the ones user_storage holds for the user
Available ==
    IF role = "admin" THEN all_aws_accounts_raw \cup all_gcp_accounts
    ELSE (all_aws_accounts_raw \cap allowed_aws_accounts)
             \cup (all_gcp_accounts \cap allowed_gcp_accounts)

\* C19: a query of a principal with no account of any kind available, which
\* the limit and the permission check let pass and for which no collaborator
\* raises, yields the guidance message as its only event, and invoke_streaming
\* is not called.
C19_NoResourcesIsGuidance ==
    (PastChecks /\ within_limit /\ ~Unauthorized /\ Available = {}
        /\ \A i \in 1..Len(events) : events[i] # ErrorEvent("failure")) =>
        /\ events = <<Guidance>>
        /\ wpc = "idle"

\* the query was let pass and no collaborator raised: the session binding ran
Entered ==
    /\ PastChecks
    /\ Admitted
    /\ \A i \in 1..Len(events) : events[i] # ErrorEvent("failure")

\* the id given is the id of a session of another user
Foreign ==
    /\ given_session # None
    /\ given_session \in DOMAIN sessions
    /\ sessions[given_session] # UserId

\* C20 as stated: a session the query streams into or saves to is the user's
\* own, and a query that gave the id of a session of another user has created
\* a new session and yielded session_created with its id.
C20_ForeignSessionReplaced ==
    /\ (wpc # "idle" \/ saved # <<>>) =>
           (session_id # None =>
               (session_id \in DOMAIN sessions /\ sessions[session_id] = UserId))
    /\ (Foreign /\ Entered) =>
           /\ session_id = NewSessionId
           /\ \E i \in 1..Len(events) : events[i] = SessionCreated(NewSessionId)

\* C20, amended: a session the query streams into or saves to is the user's
\* own; a query that gave the id of a session of another user either has
\* created a new session and yielded session_created with its id, or, when
\* creating it failed, runs with no session and saves nothing.
C20_ForeignSessionNeverBound ==
    /\ (wpc # "idle" \/ saved # <<>>) =>
           (session_id # None =>
               (session_id \in DOMAIN sessions /\ sessions[session_id] = UserId))
    /\ (Foreign /\ Entered) =>
           /\ session_id \in {NewSessionId, None}
           /\ session_id = NewSessionId =>
                  \E i \in 1..Len(events) : events[i] = SessionCreated(NewSessionId)
           /\ session_id = None => saved = <<>>

\* the id of a session of another user was given, a new session was created,
\* the user's message was saved to it and invoke_streaming was called
C20_ForeignThenFresh ==
    /\ Foreign
    /\ session_id = NewSessionId
    /\ sessions[NewSessionId] = UserId
    /\ saved = <<"user">>
    /\ wpc = "start"

\* C21 as stated: when a collaborator raised while the session was bound, the
\* query goes on with no session: no error event is yielded for it, no
\* session is created or announced and nothing is saved.
C21_BindingFaultMeansNoSession ==
    (Entered /\ binding # {}) =>
        /\ events[1] = Status("initializing")
        /\ session_id = None
        /\ saved = <<>>

\* C21, amended: when a collaborator raised while the session was bound, the
\* query goes on and no error event is yielded for it; when only the lookup
\* of the session given raised, a new session is created and announced and
\* the messages are saved to it; when the storage or the creation of the new
\* session raised, the query has no session and nothing is saved.
C21_BindingFaultNeverAborts ==
    (Entered /\ binding # {}) =>
        /\ events[1] \in {Status("initializing"), SessionCreated(NewSessionId)}
        /\ binding = {"lookup"} =>
               /\ session_id = NewSessionId
               /\ events[1] = SessionCreated(NewSessionId)
        /\ binding # {"lookup"} =>
               /\ session_id = None
               /\ events[1] = Status("initializing")
               /\ saved = <<>>

\* the storage raised, and the query went on to call invoke_streaming with no
\* session and nothing saved
C21_StorageDownThenStreaming ==
    /\ binding = {"storage"}
    /\ given_session # None
    /\ session_id = None
    /\ saved = <<>>
    /\ wpc = "start"

\* ------------------------------------------------------------ persistence
\* a save_message call was made in the step and raised
WriteFailed == chat_storage /\ session_id # None /\ saved' = saved

\* C22: a step in which save_message raises yields the event the step yields
\* when the message is saved: the status event after the user's message, the
\* completion with success after the reply; no error event is yielded for it.
C22_FailedWriteIsSilent ==
    [][WriteFailed =>
         /\ (pc = "acct" /\ events' # events
                 /\ events'[Len(events')] # ErrorEvent("account_info")) =>
                events' = Append(events, Status("processing"))
         /\ (pc = "loop" /\ cpc' = "done" /\ Strip(assistant_response) # <<>>) =>
                events' = Append(events, Complete(TRUE, token_usage_data))]_vars

\* both writes of a query with a session failed, and the query ended with the
\* completion event and without an error event
C22_NothingSavedYetCompleted ==
    /\ chat_storage
    /\ session_id # None
    /\ saved = <<>>
    /\ pc = "done"
    /\ \E i \in 1..Len(events) : events[i] = Complete(TRUE, token_usage_data)
    /\ \A i \in 1..Len(events) : events[i].type # "error"

\* ---------------------------------------------------------------- registry
\* C23: QueryRegistry.cancel(id) returns true and sets the event of the entry
\* of id when there is one, returns false and sets no event when there is
\* none; it adds and removes no entry and sets the event of no other query.
C23_CancelSetsTheEntrysEvent ==
    [][calls' # calls =>
         LET c == calls'[Len(calls')]
         IN  /\ c.found = (c.id \in DOMAIN registry)
             /\ registry' = registry
             /\ \A i \in PoolQueries :
                    /\ pool'[i].at = pool[i].at
                    /\ pool'[i].id = pool[i].id
                    /\ pool'[i].is_set =
                           (pool[i].is_set
                               \/ (c.found /\ registry[c.id].cancel_event = i))]_vars

\* one call found the entry of a query and set its event, one call found no
\* entry, and another registered query still has its event unset
C23_OneFoundOneNot ==
    /\ Len(calls) = 2
    /\ calls[1].found
    /\ ~calls[2].found
    /\ \E i, j \in PoolQueries :
         /\ pool[i].is_set
         /\ pool[j].at = "registered"
         /\ ~pool[j].is_set

\* C28: for every query that was registered and has not ended, the registry
\* holds under its id an entry with the query's own event.
C28_RegisteredQueryIsReachable ==
    \A i \in PoolQueries :
        pool[i].at = "registered" =>
            /\ pool[i].id \in DOMAIN registry
            /\ registry[pool[i].id].cancel_event = i

ScenarioA == <<[text |-> Hello], [text |-> World], [messageStop |-> "end_turn"]>>
ExpectedA == <<Chunk(Hello), Chunk(World), ParserComplete("end_turn")>>

\* the parser was given the first n frames of the scenario and nothing else
Given_A(n) ==
    /\ Len(parsed) = n
    /\ \A k \in 1..n : parsed[k].frame = ScenarioA[k]

\* C25: a new parser given the text "Hello ", the text "world" and messageStop
\* with end_turn returns chunk "Hello ", chunk "world" and complete with
\* success, one per frame and nothing else, and its buffer is empty after each.
C25_ScenarioA ==
    \A n \in 1..Len(ScenarioA) :
        Given_A(n) => (out = SubSeq(ExpectedA, 1, n) /\ buffer = <<>>)

\* the three frames of the scenario were parsed
C25_ScenarioAParsed ==
    /\ Given_A(3)
    /\ Len(out) = 3
    /\ out[3].type = "complete"
    /\ out[3].success

\* C27: a text frame with two complete <invoke> blocks, each with its own
\* <parameter> block, given to a new parser, is answered with a
\* tool_call_start for each block with the parameters of that block, and no
\* later output is a chunk.
C27_EachBlockAnnounced ==
    (Len(parsed) >= 1 /\ parsed[1].frame = [text |-> GetCost \o GetUsage]) =>
        /\ \E i \in 1..Len(out) :
               /\ out[i].type = "tool_call_start"
               /\ out[i].tool_name = <<"get_cost">>
               /\ out[i].args = ArgsSet(EmptyArgs, <<"p">>, DecodeValue(<<"1">>))
        /\ \E i \in 1..Len(out) :
               /\ out[i].type = "tool_call_start"
               /\ out[i].tool_name = <<"get_usage">>
               /\ out[i].args = ArgsSet(EmptyArgs, <<"q">>, DecodeValue(<<"2">>))
        /\ Len(parsed) = 1 => \A i \in 1..Len(out) : out[i].type # "chunk"

\* ---------------------------------------------------------------- transport
\* C26: while the event is not set, the response holds one unit for each
\* event the generator has yielded, in the order yielded, each unit made of
\* the data prefix, the event and the blank line; the units written before
\* the event was set stay as they are.
C26_OneUnitPerEvent ==
    LET n == IF cancel_at >= 0 THEN cancel_at ELSE Len(events)
    IN  /\ ~cancel_event => Len(sent) = Len(events)
        /\ Len(sent) >= n
        /\ \A i \in 1..n :
               /\ sent[i][1] = DataPrefix
               /\ sent[i][2] = events[i]
               /\ sent[i][3] = "\n\n"

\* a query that was never cancelled ran to its end, and each of its events,
\* five or more, is in the response
C26_WholeStreamWritten ==
    /\ ~cancel_event
    /\ pc = "done"
    /\ Len(events) >= 5
    /\ Len(sent) = Len(events)
    /\ events[Len(events)].type = "complete"

\* C29: after the cancellation notice the generator yields no completion
\* event and saves no reply, also when it is iterated to its end.
C29_NothingAfterCancelled ==
    \A i \in 1..Len(events) :
        events[i] = Cancelled =>
            /\ \A j \in (i + 1)..Len(events) : events[j].type # "complete"
            /\ "assistant" \notin {saved[k] : k \in 1..Len(saved)}

\* C30: the consumer ends only after the worker has sent its terminal signal,
\* having yielded every event_data the worker decoded and enqueued, and raises
\* only an exception the worker sent: no decoded record is taken for the end
\* marker or for an exception.
C30_NoRecordTakenForSignal ==
    /\ cpc = "done" =>
           /\ wpc = "done"
           /\ wsignal = NoneItem
           /\ yielded = decoded
    /\ cpc = "raised" =>
           /\ wpc = "done"
           /\ wsignal.is = "exc"

\* ------------------------------------------------- the end of a message
\* what a step of the parser added to its output
NewMessages == SubSeq(out', Len(out) + 1, Len(out'))
\* the step parsed one more frame, and the frame holds this part
ParsedPart(part) ==
    /\ Len(parsed') = Len(parsed) + 1
    /\ Has(parsed'[Len(parsed')].frame, part)
LastFrame == parsed'[Len(parsed')].frame

PartialInvoke == <<"a">> \o InvokeHead("get_cost")

\* messageStop.stopReason: the three reasons that end a turn, tool_use, a
\* reason the parser does not know, and no reason at all
StopFrames ==
    { [text |-> Hello],
      [text |-> PartialInvoke],
      [messageStop |-> "end_turn"],
      [messageStop |-> "max_tokens"],
      [messageStop |-> "stop_sequence"],
      [messageStop |-> "tool_use"],
      [messageStop |-> "guardrail_intervened"],
      [messageStop |-> None] }

FeedStop ==
    /\ Len(parsed) < MaxFrames
    /\ \E f \in StopFrames, ts \in clock..Min(clock + 1, MaxClock) :
           ParseFrame(f, ts)
    /\ UNCHANGED <<splitVars, bridgeVars, serviceVars>>

NextStop == FeedStop

SpecStop == InitFeed /\ [][NextStop]_vars

\* C31: a messageStop frame sends what is left in the buffer as one chunk and
\* leaves the buffer empty, and adds a complete message exactly when the stop
\* reason is end_turn, max_tokens or stop_sequence; for tool_use or any other
\* reason it adds none.
C31_MessageStopDrains ==
    [][ParsedPart("messageStop") =>
          LET s == LastFrame.messageStop
              rest == IF buffer # <<>> THEN <<Chunk(buffer)>> ELSE <<>>
              done == IF s \in {"end_turn", "max_tokens", "stop_sequence"}
                      THEN <<[type |-> "complete", success |-> TRUE,
                              stop_reason |-> s]>>
                      ELSE <<>>
          IN  /\ buffer' = <<>>
              /\ NewMessages = rest \o done]_vars

\* text was held back behind an opening <invoke, then the message ended for
\* tool use: the held text came out as a chunk and no complete followed
C31_DrainedWithoutComplete ==
    /\ Len(parsed) = 2
    /\ parsed[1].frame = [text |-> PartialInvoke]
    /\ parsed[2].frame = [messageStop |-> "tool_use"]
    /\ out = <<Chunk(<<"a">>), Chunk(InvokeHead("get_cost"))>>
    /\ buffer = <<>>

\* ------------------------------------------- tool use as structural frames
MaxSegment == 4

\* two tool uses, each with its contentBlockIndex; the arguments of the first
\* arrive in two fragments
SegmentFrames ==
    { [blockStart |-> [toolUseId |-> <<"tu1">>, name |-> <<"get_cost">>, index |-> 1]],
      [blockStart |-> [toolUseId |-> <<"tu2">>, name |-> <<"get_usage">>, index |-> 2]],
      [toolDelta |-> [index |-> 1, input |-> <<"{\"a\":">>]],
      [toolDelta |-> [index |-> 1, input |-> <<"1}">>]],
      [blockStop |-> 1],
      [blockStop |-> 2] }

FeedSegment ==
    /\ Len(parsed) < MaxSegment
    /\ \E f \in SegmentFrames, ts \in clock..Min(clock + 1, MaxClock) :
           ParseFrame(f, ts)
    /\ UNCHANGED <<splitVars, bridgeVars, serviceVars>>

NextSegment == FeedSegment

SpecSegment == InitFeed /\ [][NextSegment]_vars

\* the frames parsed so far that open, or close, the segment with this index
StartsOf(index) ==
    {k \in 1..Len(parsed) :
        /\ Has(parsed[k].frame, "blockStart")
        /\ parsed[k].frame.blockStart.index = index}
StopsOf(index) ==
    {k \in 1..Len(parsed) :
        /\ Has(parsed[k].frame, "blockStop")
        /\ parsed[k].frame.blockStop = index}
\* the frame that opened the segment still open at this index, 0 when none
OpenedAt(index) ==
    LET open == {k \in StartsOf(index) : \A e \in StopsOf(index) : e < k}
    IN  IF open = {} THEN 0 ELSE CHOOSE k \in open : \A m \in open : m <= k

\* the argument fragments for this index in frames from..to, in arrival order
RECURSIVE Fragments(_, _, _)
Fragments(index, from, to) ==
    IF from > to THEN <<>>
    ELSE LET f == parsed[from].frame
             here == IF Has(f, "toolDelta") /\ f.toolDelta.index = index
                     THEN f.toolDelta.input ELSE <<>>
         IN  here \o Fragments(index, from + 1, to)

Announced(id) == \E k \in 1..Len(out) : IsStart(out[k]) /\ out[k].tool_id = id

\* C32: a contentBlockStart frame with a toolUse and a toolUse delta frame
\* return no message; the contentBlockStop frame with the index of an open
\* segment returns one tool_call_start with the id and name of the segment and
\* the arguments parsed from all fragments received for that index since the
\* start, joined in arrival order, or nothing when a tool_call_start with that
\* id was returned before; the pending record is gone after it.
C32_SegmentAnnouncedOnStop ==
    [][/\ ParsedPart("blockStart") => NewMessages = <<>>
       /\ ParsedPart("toolDelta") => NewMessages = <<>>
       /\ (ParsedPart("blockStop") /\ OpenedAt(LastFrame.blockStop) # 0) =>
              LET index == LastFrame.blockStop
                  s == OpenedAt(index)
                  st == parsed[s].frame.blockStart
                  args_str == Fragments(index, s + 1, Len(parsed))
                  args == IF args_str = <<"{\"a\":", "1}">>
                          THEN ArgsSet(EmptyArgs, <<"a">>, DecodeValue(<<"1">>))
                          ELSE EmptyArgs
              IN  /\ NewMessages =
                         IF Announced(st.toolUseId) THEN <<>>
                         ELSE <<ToolCallStart(st.toolUseId, st.name, args, FALSE)>>
                  /\ \A k \in 1..Len(pending_tool_calls') :
                         /\ pending_tool_calls'[k].k # st.toolUseId
                         /\ pending_tool_calls'[k].v.content_block_index # index]_vars

\* a segment was opened, its arguments arrived in two fragments, it was closed:
\* one tool_call_start with the arguments of the two fragments together
C32_TwoFragmentsOneStart ==
    /\ Len(parsed) = 4
    /\ Has(parsed[1].frame, "blockStart")
    /\ Has(parsed[2].frame, "toolDelta")
    /\ Has(parsed[3].frame, "toolDelta")
    /\ parsed[4].frame = [blockStop |-> 1]
    /\ out = <<ToolCallStart(<<"tu1">>, <<"get_cost">>,
                             ArgsSet(EmptyArgs, <<"a">>, DecodeValue(<<"1">>)), FALSE)>>
    /\ pending_tool_calls = <<>>

\* ------------------------------------- parameters after the closing tag
Stray == GetCost \o Param("q", <<"2">>)
Merged ==
    ArgsSet(ArgsSet(EmptyArgs, <<"p">>, DecodeValue(<<"1">>)),
            <<"q">>, DecodeValue(<<"2">>))

\* C33: when a <parameter> block follows the </invoke> of a complete block
\* that the parser announced, however the text is cut into frames, none of it
\* is returned as a chunk, and the tool_call_start of the block is followed by
\* a tool_call_start with the same id, the arguments of the block and the
\* stray parameter together, and the update flag; a text without a stray
\* parameter gets no tool_call_start with the update flag.
C33_StrayParametersMerged ==
    split_rest = <<>> =>
        IF split_text = Stray
        THEN FirstStarts # {} =>
                 /\ \A i \in 1..Len(out) : out[i].type # "chunk"
                 /\ \E i \in Starts \ FirstStarts :
                        /\ i - 1 \in FirstStarts
                        /\ out[i - 1].tool_id = out[i].tool_id
                        /\ out[i].args = Merged
        ELSE Starts \ FirstStarts = {}

\* -------------------------------------------------- text held in the buffer
\* C34: after a text frame, when the buffer (the text added, the wrapper tags
\* taken out) holds an opening <invoke but no complete block, the text before
\* it is returned as one chunk and the buffer keeps everything from the
\* <invoke on; when it holds no <invoke, all of it is returned as one chunk and
\* the buffer is empty.
C34_TextBehindMarkerIsKept ==
    [][ParsedPart("text") =>
          \A b \in {SubWrapClose(SubWrapOpen(buffer \o LastFrame.text))} :
          \A at \in {FindInvokeLiteral(b)} :
              ~MatchInvoke(b).found =>
                  /\ at = 0 =>
                         /\ buffer' = <<>>
                         /\ NewMessages = IF b = <<>> THEN <<>> ELSE <<Chunk(b)>>
                  /\ at > 0 =>
                         /\ buffer' = From(b, at)
                         /\ NewMessages = IF at = 1 THEN <<>>
                                          ELSE <<Chunk(SubSeq(b, 1, at - 1))>>]_vars

\* the text before an opening <invoke went out, the opening tag and what
\* follows it is still in the buffer
C34_HeldBehindMarker ==
    /\ split_text = <<"a">> \o GetCost \o <<"b">>
    /\ Len(parsed) = 1
    /\ out = <<Chunk(<<"a">>)>>
    /\ OccursAt(InvokeHead("get_cost"), buffer, 1)
    /\ Len(buffer) > Len(InvokeHead("get_cost"))

\* ------------------------------------- one response body, cut into chunks
Record(doc) == <<DataPrefix, doc, NL>>

\* two records; two records, the last without its newline; a line that is not
\* JSON and a blank line before a record; the document null between records;
\* a line that is not UTF-8 between records; a last line that is not a record
CutBodies ==
    { Record("{text:a}") \o Record("{stop}"),
      Record("{text:a}") \o <<DataPrefix, "{stop}">>,
      Record("{bad") \o <<NL>> \o Record("{text:a}"),
      Record("{text:a}") \o Record("null") \o Record("{stop}"),
      Record("{text:a}") \o Record(BadBytes) \o Record("{stop}"),
      Record("{error}") \o <<DataPrefix>> }

\* iter_chunks gives the body in pieces, cut anywhere
ChunkCuts(body) ==
    {c \in SUBSET (1..(Len(body) - 1)) : Cardinality(c) <= MaxChunks - 1}

InitCut ==
    /\ InitParser
    /\ NoQuery
    /\ wpc = "start"
    /\ wbuf = <<>>
    /\ nchunks = 0
    /\ decoded = <<>>
    /\ wsignal = NoSignal
    /\ received = <<>>
    /\ wfault = "none"
    /\ event_queue = <<>>
    /\ cpc = "waiting"
    /\ yielded = <<>>
    /\ split_text \in CutBodies
    /\ \E c \in ChunkCuts(split_text) : split_rest = Pieces(split_text, c, 1)

\* the next piece of the body is the next chunk
CutChunk ==
    /\ split_rest # <<>>
    /\ ReadChunk(Head(split_rest))
    /\ split_rest' = Tail(split_rest)
    /\ UNCHANGED <<parserVars, feedVars, split_text, consumerVars, serviceVars>>

\* the body is read to its end
CutEnd ==
    /\ split_rest = <<>>
    /\ BridgeEnd

NextCut ==
    \/ BridgeInvoke
    \/ CutChunk
    \/ CutEnd
    \/ BridgeConsume

SpecCut == InitCut /\ [][NextCut]_vars

\* what the worker decodes when the body arrives as one chunk
DecodedWhole(body) ==
    LET r == SplitLines(body, <<>>, <<>>)
    IN  IF r.raised THEN r.d ELSE PutLine(r.buf, r.q, r.d).d

\* what the consumer yields of it
RECURSIVE YieldedOf(_)
YieldedOf(d) ==
    IF d = <<>> \/ IsNone(Head(d)) \/ IsException(Head(d)) THEN <<>>
    ELSE <<Head(d)>> \o YieldedOf(Tail(d))

\* C35: however the response body is cut into chunks, once the worker has read
\* all of it and ended and the consumer has ended, the consumer has yielded
\* what it yields when the body arrives as one chunk: a record cut in two is
\* yielded once, and a last record without its newline is yielded too.
C35_ChunkCutsDoNotMatter ==
    (wpc = "done" /\ received = split_text /\ cpc # "waiting") =>
        /\ decoded = DecodedWhole(split_text)
        /\ yielded = YieldedOf(DecodedWhole(split_text))

\* the last record has no newline and was cut after its prefix: both records
\* were yielded, each once
C35_CutRecordYieldedOnce ==
    /\ split_text = Record("{text:a}") \o <<DataPrefix, "{stop}">>
    /\ nchunks = 2
    /\ received = split_text
    /\ wbuf = <<DataPrefix, "{stop}">>
    /\ cpc = "done"
    /\ yielded = <<FrameItem([text |-> <<"a">>]), FrameItem([messageStop |-> "end_turn"])>>

\* ------------------------------------------- a response left before its end
\* one query served by generate(): the client can go away, which the watcher
\* turns into a set event, and the task of generate() can be cancelled
InitClose == \E q \in DrainQueries : Started(q, FALSE)

NextClose ==
    \/ Register
    \/ BindSession
    \/ InitStatus
    \/ AccountInfo
    \/ Invoke
    \/ StreamNext
    \/ YieldNext
    \/ RecordMetrics
    \/ Finish
    \/ Finalize
    \/ Disconnect
    \/ WatchDisconnect
    \/ TaskCancelled
    \/ BridgeInvoke
    \/ UpstreamChunk
    \/ BridgeEnd
    \/ BridgeFault

\* a generator that is left suspended is closed by the event loop: the loop's
\* finalizer hook schedules aclose() when the generator object is released
SpecClose == InitClose /\ [][NextClose]_vars /\ WF_vars(Finalize)

\* C36: once generate() has stopped reading, be it after the cancellation
\* notice or because its task was cancelled, the registry entry of the query
\* is eventually gone.
C36_EntryRemovedAfterLeaving ==
    (tpc = "closed") ~> (QueryId \notin DOMAIN registry)

\* generate() left after the cancellation notice with events still to come,
\* the generator was closed and the entry is gone
C36_LeftThenRemoved ==
    /\ tpc = "closed"
    /\ pc = "closed"
    /\ cancel_event
    /\ sent # <<>>
    /\ sent[Len(sent)] = SSE(Cancelled)
    /\ event_count >= 1
    /\ QueryId \notin DOMAIN registry


\* ---------------------------------------------------------------------------
\* AlertScheduler._execute_single_alert (services/alert_scheduler.py)
\* ---------------------------------------------------------------------------

MaxRetries == 4
AlertId == "alert-1"
AlertErrors == {"timeout", "throttled", "denied"}
UnknownError == "unknown error"

WaitOne(attempt) == 1

\* line 589: the wait before the next attempt
WaitTime(attempt) == 2 ^ attempt

\* line 604: str(last_error), or the fixed text when no attempt was made
ErrorMessage(e) == IF e = None THEN UnknownError ELSE e

\* lines 574-581: what a successful attempt returns
AlertSucceeded(id) == [success |-> TRUE, alert_id |-> id]

\* line 609 and _batch_execute_alerts lines 442-448: what a failure returns
AlertFailed(id, message) == [success |-> FALSE, alert_id |-> id, error |-> message]

\* the scheduler is built with a retry limit (line 88) and is given an alert
InitRetry ==
    /\ InitParser
    /\ NoSplit
    /\ NoBridge
    /\ NoRun
    /\ NoPool
    /\ NoBatch
    /\ NoFrequency
    /\ max_retries \in 1..MaxRetries
    /\ apc = "idle"
    /\ attempts = <<>>
    /\ sleeps = <<>>
    /\ last_error = None
    /\ logged = 0
    /\ result = None

RetryRest ==
    UNCHANGED <<parserVars, feedVars, splitVars, bridgeVars, queryVars, registryVars,
                transportVars, cancelVars, admissionVars, sessions, binding, poolVars,
                batchVars, frequencyVars, max_retries>>

\* lines 544-546: the call starts with no error
StartAlert ==
    /\ apc = "idle"
    /\ apc' = "attempt"
    /\ last_error' = None
    /\ UNCHANGED <<attempts, sleeps, logged, result>>
    /\ RetryRest

\* lines 548-602: one turn of the loop. The check returns, its time is written
\* by _update_alert_status_sync (which keeps its own errors) and the call
\* returns; or the check raises, and the loop waits unless the turn was the last
ExecuteAlertCheck ==
    /\ apc = "attempt"
    /\ Len(attempts) < max_retries
    /\ \E raised \in {None} \cup AlertErrors :
         /\ attempts' = Append(attempts, raised)
         /\ IF raised = None
            THEN /\ result' = AlertSucceeded(AlertId)
                 /\ apc' = "returned"
                 /\ UNCHANGED <<last_error, sleeps>>
            ELSE /\ last_error' = raised
                 /\ IF Len(attempts) < max_retries - 1
                    THEN /\ sleeps' = Append(sleeps, WaitTime(Len(attempts)))
                         /\ apc' = "attempt"
                    ELSE /\ apc' = "failed"
                         /\ UNCHANGED sleeps
                 /\ UNCHANGED result
    /\ UNCHANGED logged
    /\ RetryRest

\* lines 604-609: the loop is over; _log_failure_sync is called with the
\* message of the last error and the failure is returned
LogFailure ==
    /\ apc = "failed"
    /\ logged' = logged + 1
    /\ result' = AlertFailed(AlertId, ErrorMessage(last_error))
    /\ apc' = "returned"
    /\ UNCHANGED <<attempts, sleeps, last_error>>
    /\ RetryRest

NextRetry ==
    \/ StartAlert
    \/ ExecuteAlertCheck
    \/ LogFailure

SpecAlert == InitRetry /\ [][NextRetry]_vars

\* the event loop resumes the coroutine when the check, the sleep or the
\* thread it awaits is over
SpecRetry == SpecAlert /\ WF_vars(NextRetry)

\* the attempts that raised and were followed by a wait
Waited == {i \in 1..Len(attempts) : attempts[i] # None /\ i < max_retries}

RetrySafe ==
    /\ Len(attempts) <= max_retries
    /\ \A i \in 1..(Len(attempts) - 1) : attempts[i] # None
    /\ Len(sleeps) = Cardinality(Waited)
    /\ \A i \in 1..Len(sleeps) : sleeps[i] = 2 ^ (i - 1)
    /\ apc = "returned" =>
         /\ result.success <=> attempts[Len(attempts)] = None
         /\ ~result.success <=>
              /\ Len(attempts) = max_retries
              /\ \A i \in 1..max_retries : attempts[i] # None
         /\ result.success => logged = 0
         /\ ~result.success =>
              /\ result.error = attempts[max_retries]
              /\ logged = 1

MaxAlerts == 3
MaxConcurrent == 2
Alerts == <<"alert-1", "alert-2", "alert-3", "alert-4">>

\* what asyncio.gather(..., return_exceptions=True) holds for one task: the
\* value it returned or the exception it raised
TaskReturned(value) == [raised |-> FALSE, value |-> value]
TaskRaised(e) == [raised |-> TRUE, value |-> [exception |-> e]]

\* what executing one alert can come to
SingleOutcomes(id) ==
    {TaskReturned(AlertSucceeded(id))}
    \cup {TaskReturned(AlertFailed(id, e)) : e \in AlertErrors}
    \cup {TaskRaised(e) : e \in AlertErrors}

ExceptionLost(item, id) == IF item.raised THEN AlertSucceeded(id) ELSE item.value

\* lines 441-455: an exception becomes a failure of its alert, a value stays
Processed(item, id) ==
    IF item.raised THEN AlertFailed(id, item.value.exception) ELSE item.value

\* lines 421-430: one task for each alert, each in its first sleep
InitBatch ==
    /\ InitParser
    /\ NoSplit
    /\ NoBridge
    /\ NoRun
    /\ NoPool
    /\ NoRetry
    /\ NoFrequency
    /\ max_concurrent_alerts \in 1..MaxConcurrent
    /\ \E n \in 0..MaxAlerts :
         tasks = [i \in 1..n |-> [id |-> Alerts[i], at |-> "sleeping", item |-> None]]
    /\ bpc = "gather"
    /\ processed_results = <<>>

BatchRest ==
    UNCHANGED <<parserVars, feedVars, splitVars, bridgeVars, queryVars, registryVars,
                transportVars, cancelVars, admissionVars, sessions, binding, poolVars,
                retryVars, frequencyVars, max_concurrent_alerts>>

Running == {i \in 1..Len(tasks) : tasks[i].at = "running"}

\* lines 426-428: the sleep of a task is over and the semaphore lets it in
EnterSemaphore ==
    /\ Cardinality(Running) < max_concurrent_alerts
    /\ \E i \in 1..Len(tasks) :
         /\ tasks[i].at = "sleeping"
         /\ tasks' = [tasks EXCEPT ![i].at = "running"]
    /\ UNCHANGED <<bpc, processed_results>>
    /\ BatchRest

\* lines 428-429: _execute_single_alert returns or raises, the semaphore is
\* released and the task is over
ExecuteSingle ==
    /\ \E i \in Running :
         \E item \in SingleOutcomes(tasks[i].id) :
           tasks' = [tasks EXCEPT ![i].at = "done", ![i].item = item]
    /\ UNCHANGED <<bpc, processed_results>>
    /\ BatchRest

\* lines 439-457: gather is over when every task is, and the results are
\* processed in the order of the alerts
GatherResults ==
    /\ bpc = "gather"
    /\ \A i \in 1..Len(tasks) : tasks[i].at = "done"
    /\ processed_results' = [i \in 1..Len(tasks) |-> Processed(tasks[i].item, tasks[i].id)]
    /\ bpc' = "returned"
    /\ UNCHANGED tasks
    /\ BatchRest

NextBatch ==
    \/ EnterSemaphore
    \/ ExecuteSingle
    \/ GatherResults

SpecBatch == InitBatch /\ [][NextBatch]_vars

\* C38: _batch_execute_alerts returns one result for each alert it was
\* given, in their order, after every alert was executed; an alert whose
\* execution raised has a success=false result with its id and that error, and
\* every other alert has the result its execution returned
C38_OneResultPerAlert ==
    bpc = "returned" =>
      /\ Len(processed_results) = Len(tasks)
      /\ \A i \in 1..Len(tasks) :
           /\ tasks[i].at = "done"
           /\ tasks[i].item.raised =>
                processed_results[i] = [success |-> FALSE, alert_id |-> Alerts[i],
                                        error |-> tasks[i].item.value.exception]
           /\ ~tasks[i].item.raised => processed_results[i] = tasks[i].item.value

\* of three alerts the second raised and the others succeeded
C38_SecondOfThreeRaised ==
    /\ bpc = "returned"
    /\ Len(tasks) = 3
    /\ tasks[2].item.raised
    /\ ~processed_results[2].success
    /\ processed_results[1].success
    /\ processed_results[3].success

\* ---------------------------------------------------------------------------
\* AlertScheduler._should_execute_alert
\* ---------------------------------------------------------------------------

\* times are hours since an epoch, in UTC
HoursPerDay == 24
\* line 76: the scheduler's zone is Asia/Tokyo unless configured, UTC+9
TzOffset == 9
\* line 387: last_checked_at of an alert never checked
Never == -1
Today == 40 * HoursPerDay
\* how long before the current time the alert was last checked, in hours
Ago == {1, HoursPerDay, 3 * HoursPerDay, 8 * HoursPerDay, 15 * HoursPerDay,
        31 * HoursPerDay}
Frequencies == {"daily", "weekly", "monthly", None, ""}

\* lines 393-394: astimezone(self.tz) and date()
LocalDate(t) == (t + TzOffset) \div HoursPerDay

\* lines 387-405
ShouldExecuteAlert(a, now) ==
    IF a.last_checked_at = Never
    THEN TRUE
    ELSE LocalDate(a.last_checked_at) < LocalDate(now)

InitFrequency ==
    /\ InitParser
    /\ NoSplit
    /\ NoBridge
    /\ NoRun
    /\ NoPool
    /\ NoRetry
    /\ NoBatch
    /\ current_time \in Today..(Today + HoursPerDay - 1)
    /\ \E f \in Frequencies :
         \E last \in {Never} \cup {current_time - ago : ago \in Ago} :
           alert = [last_checked_at |-> last, check_frequency |-> f]
    /\ should_execute = <<>>

\* line 263: the scan asks whether the alert is due
ShouldExecute ==
    /\ should_execute = <<>>
    /\ should_execute' = <<ShouldExecuteAlert(alert, current_time)>>
    /\ UNCHANGED <<alert, current_time>>
    /\ UNCHANGED <<parserVars, feedVars, splitVars, bridgeVars, queryVars,
                   registryVars, transportVars, cancelVars, admissionVars, sessions,
                   binding, poolVars, retryVars, batchVars>>

NextFrequency == ShouldExecute

SpecFrequency == InitFrequency /\ [][NextFrequency]_vars

Since == current_time - alert.last_checked_at

\* C39: _should_execute_alert answers true for an alert never checked; for a
\* daily alert, or one whose frequency is null or empty, false when the last
\* check was earlier the same day and true when it was on a previous day; for
\* a weekly alert false when the last check was less than 7 days ago and true
\* when it was more; for a monthly alert false when the last check was 15 days
\* ago and true when it was 31 days ago
C39_FrequencyHonoured ==
    should_execute # <<>> =>
      LET answer == should_execute[1]
          f == alert.check_frequency
      IN  IF alert.last_checked_at = Never
          THEN answer
          ELSE /\ f \in {"daily", None, ""} =>
                    /\ LocalDate(alert.last_checked_at) = LocalDate(current_time)
                         => ~answer
                    /\ LocalDate(alert.last_checked_at) < LocalDate(current_time)
                         => answer
               /\ f = "weekly" =>
                    /\ Since < 7 * HoursPerDay => ~answer
                    /\ Since > 7 * HoursPerDay => answer
               /\ f = "monthly" =>
                    /\ Since = 15 * HoursPerDay => ~answer
                    /\ Since = 31 * HoursPerDay => answer

====
